---- MODULE Spec2Model ----
(***************************************************************************)
(* A model of the ArchiMate validate -> layout -> serialize pipeline:      *)
(* the relationship validator, the layered layout engine, the XML          *)
(* generators and the XmlExporter orchestrator.                            *)
(*                                                                         *)
(* Conventions.  A JavaScript string whose characters matter (an element   *)
(* name, an id, a text to escape, a piece of XML) is a sequence of         *)
(* symbols: a symbol is one character, or a fixed piece of text of which   *)
(* only equality matters (a markup piece of a template, a placeholder, an  *)
(* enum tag, the letters of an id).  An enum tag on its own is a TLA+      *)
(* string.  A value that may be undefined is <<>> (undefined) or <<v>>     *)
(* (the value v).                                                          *)
(***************************************************************************)
EXTENDS Integers, Sequences, FiniteSets, TLC

VARIABLES
    val_pc,            \* Validator.validate: "ready" before the call, "done" after it
    val_elements,      \* its elements argument
    val_relationships, \* its relationships argument
    val_errors,        \* the ValidationError[] it returned
    lay_pc,            \* LayoutEngine: "ready" with a call's arguments, "done" after it
    lay_config,        \* the engine's this.config
    lay_elements,      \* the elements argument of the call
    lay_relationships, \* the relationships argument of the call
    lay_result,        \* the LayoutResult the call returned
    lay_calls,         \* the number of calls made on the engine
    lay_kept,          \* an earlier call on the engine: its arguments and result
    esc_pc,            \* the generators: "ready", "element" after generateElement,
                       \* "done" after generateRelationship
    esc_name,          \* the name of the element that is generated
    esc_element,       \* the XML generateElement returned
    esc_relationship,  \* the XML generateRelationship returned
    view_pc,           \* ViewXmlGenerator: "ready" with a call's arguments, "done"
    view_this,         \* the generator: its layoutEngine and its colorTheme
    view_elements,     \* the elements argument of generateViewXml
    view_relationships, \* its relationships argument
    view_result,       \* what generateViewXml returned or threw
    exp_pc,            \* XmlExporter: "idle" between calls; "step1" .. "step4" inside
                       \* exportModel; "returned" or "thrown" after it; "finished"
                       \* when exportToXml has handed the outcome on;
                       \* "unconstructed" when no exporter could be made
    exp_this,          \* the exporter
    exp_via,           \* who called exportModel: "caller" or "exportToXml"
    exp_elements,      \* the elements argument of exportModel
    exp_relationships, \* its relationships argument
    exp_options,       \* its options argument
    exp_atCall,        \* the exporter as it was when exportModel was called
    exp_result,        \* the result object of exportModel
    exp_trace,         \* the calls exportModel has made so far
    exp_outcome,       \* what exportModel returned or threw
    exp_received,      \* what exportToXml returned or threw, or what a
                       \* constructor that threw gave its caller
    exp_calls,         \* the number of exportModel calls made
    exp_kept,          \* an earlier call: its options, exporter and outcome
    gen_pc, \* RelationshipXmlGenerator.generateRelationships: "ready" with a call's arguments, "done"
    gen_relationships, \* its relationships argument
    gen_options, \* its options argument
    gen_elements, \* its elements argument, or undefined
    gen_result,\* the string it returned, or what it threw
    thm_entry, \* the entry point a theme name was last given to, or the
               \* method last called on the exporter or on the theme object
    thm_name, \* the name that was given
    thm_outcome,\* what createXmlExporter or setColorTheme returned or threw
    fac_pc, \* ElementFactory.create: "ready" with a call's arguments, "done" after it
    fac_type, \* its type argument
    fac_id, \* its id argument
    fac_name, \* its name argument
    fac_result,\* the element it returned, or what it threw
    xml_pc, \* validateXmlString: the check to run next
    xml_xml, \* the text given to validateXmlString
    xml_parsed, \* what parseXml makes of the text: None when the DOMParser throws
    xml_result, \* the ValidationResult being filled
    xml_trace,\* the checks that have run, in order
    mdl_pc, \* validateModel: ready or done
    mdl_elements, \* the elements given to validateModel
    mdl_relationships, \* the relationships given to validateModel
    mdl_result,\* the ValidationResult returned, None before the call
    frg_pc, \* the fragment generators: ready, element, done
    frg_element, \* the element given to generateElement
    frg_relationship, \* the relationship given to generateRelationship
    frg_includeNames, \* the includeNames option of generateRelationship
    frg_elementXml, \* the fragment generateElement returned
    frg_relationshipXml,\* the fragment generateRelationship returned
    dim_pc, \* getElementDimensions: ready or done
    dim_config, \* the configuration of the engine
    dim_element, \* the element given to getElementDimensions
    dim_result,\* the dimensions returned, None before the call
    doc_pc, \* generateDocumentation: ready or done
    doc_element, \* the element given to the generator
    doc_options, \* the ElementGenerationOptions of the call
    doc_result,\* the documentation text, None before the call
    els_pc, \* generateElements: ready or done
    els_elements, \* the elements given to generateElements
    els_options, \* the ElementGenerationOptions of the call
    els_result, \* the generated text, None before the call
    __dirname \* what the free variable __dirname of relationship-xml-generator.ts
              \* is bound to: None where nothing defines it (an ES module),
              \* else the directory the host defines

valVars == <<val_pc, val_elements, val_relationships, val_errors>>
layVars == <<lay_pc, lay_config, lay_elements, lay_relationships, lay_result,
             lay_calls, lay_kept>>

escVars == <<esc_pc, esc_name, esc_element, esc_relationship>>
viewVars == <<view_pc, view_this, view_elements, view_relationships, view_result>>
expVars == <<exp_pc, exp_this, exp_via, exp_elements, exp_relationships, exp_options,
             exp_atCall, exp_result, exp_trace, exp_outcome, exp_received,
             exp_calls, exp_kept>>
genVars == <<gen_pc, gen_relationships, gen_options, gen_elements, gen_result>>
thmVars == <<thm_entry, thm_name, thm_outcome>>
facVars == <<fac_pc, fac_type, fac_id, fac_name, fac_result>>
xmlVars == <<xml_pc, xml_xml, xml_parsed, xml_result, xml_trace>>
mdlVars == <<mdl_pc, mdl_elements, mdl_relationships, mdl_result>>
frgVars == <<frg_pc, frg_element, frg_relationship, frg_includeNames, frg_elementXml, frg_relationshipXml>>
dimVars == <<dim_pc, dim_config, dim_element, dim_result>>
docVars == <<doc_pc, doc_element, doc_options, doc_result>>
elsVars == <<els_pc, els_elements, els_options, els_result>>
envVars == <<__dirname>>
vars == <<valVars, layVars, escVars, viewVars, expVars,
          genVars,
          thmVars,
          facVars,
          xmlVars,
          mdlVars,
          frgVars,
          dimVars,
          docVars,
          elsVars,
          envVars>>

-----------------------------------------------------------------------------
(* Generic helpers *)

None == <<>>
Some(v) == <<v>>
IsSome(o) == o # <<>>
Val(o) == o[1]

SeqsUpTo(S, n) == UNION {[1..k -> S] : k \in 0..n}

Max2(a, b) == IF a >= b THEN a ELSE b

SetMax(S) == CHOOSE m \in S : \A k \in S : k <= m

\* Array.prototype.includes
Includes(arr, v) == \E i \in DOMAIN arr : arr[i] = v

-----------------------------------------------------------------------------
(* The type vocabulary (models/archimate.ts) and the element classes *)

Layer_MOTIVATION == "Motivation"
Layer_STRATEGY == "Strategy"
Layer_BUSINESS == "Business"
Layer_APPLICATION == "Application"
Layer_TECHNOLOGY == "Technology"
Layer_PHYSICAL == "Physical"
Layer_IMPLEMENTATION == "Implementation"

\* BaseElement: the four readonly fields
BaseElement(id, name, type, layer) ==
    [id |-> id, name |-> name, type |-> type, layer |-> layer]

Goal(id, name) == BaseElement(id, name, "Goal", Layer_MOTIVATION)
ValueStream(id, name) == BaseElement(id, name, "ValueStream", Layer_STRATEGY)
BusinessActor(id, name) == BaseElement(id, name, "BusinessActor", Layer_BUSINESS)
BusinessRole(id, name) == BaseElement(id, name, "BusinessRole", Layer_BUSINESS)
BusinessProcess(id, name) == BaseElement(id, name, "BusinessProcess", Layer_BUSINESS)
ApplicationComponent(id, name) ==
    BaseElement(id, name, "ApplicationComponent", Layer_APPLICATION)
Node(id, name) == BaseElement(id, name, "Node", Layer_TECHNOLOGY)
Location(id, name) == BaseElement(id, name, "Location", Layer_PHYSICAL)
Deliverable(id, name) == BaseElement(id, name, "Deliverable", Layer_IMPLEMENTATION)

\* class Relationship
Relationship(id, source, target, type) ==
    [id |-> id, source |-> source, target |-> target, type |-> type]

\* Names used as inputs
NameCustomer == <<"C","u","s","t","o","m","e","r">>
NameOrderProcessing ==
    <<"O","r","d","e","r"," ","P","r","o","c","e","s","s","i","n","g">>

-----------------------------------------------------------------------------
(* validator/validation_matrix.ts and validator/validator.ts *)

\* The sparse matrix: source type -> target type -> allowed relationship types
validationMatrix ==
    [BusinessActor |-> [BusinessRole |-> <<"Assignment">>],
     ApplicationComponent |->
        [ApplicationComponent |-> <<"Composition", "Aggregation">>],
     ValueStream |-> [ValueStream |-> <<"Composition", "Aggregation">>],
     Location |-> [Location |-> <<"Composition", "Aggregation">>]]

\* validationMatrix.get(sourceType)?.get(targetType)
MatrixGet(sourceType, targetType) ==
    IF sourceType \in DOMAIN validationMatrix
    THEN IF targetType \in DOMAIN validationMatrix[sourceType]
         THEN Some(validationMatrix[sourceType][targetType])
         ELSE None
    ELSE None

\* new Map(elements.map(e => [e.id, e])): a later element replaces an earlier
\* one that has the same id
ElementMap(elements) ==
    [id \in {elements[i].id : i \in DOMAIN elements} |->
        elements[SetMax({i \in DOMAIN elements : elements[i].id = id})]]

\* The mutant of IsInvalid: a pair without a matrix entry is let through
IsInvalid_DefaultAllow(allowedRelationships, type) ==
    IsSome(allowedRelationships) /\ ~Includes(Val(allowedRelationships), type)

\* !allowedRelationships || !allowedRelationships.includes(relationship.type)
IsInvalid(allowedRelationships, type) ==
    ~IsSome(allowedRelationships) \/ ~Includes(Val(allowedRelationships), type)

\* The ValidationError pushed for one relationship; the message is the template
\* text with its three substituted values
ValidationError(source, target, relationship) ==
    [message |-> <<"Invalid relationship type '", relationship.type,
                   "' between '", source.type, "' and '", target.type, "'">>,
     source |-> source, target |-> target, relationship |-> relationship]

\* The for loop of validate, from relationship i on
RECURSIVE validateFrom(_, _, _, _)
validateFrom(elementMap, relationships, i, errors) ==
    IF i > Len(relationships) THEN errors
    ELSE LET relationship == relationships[i] IN
         IF relationship.source \notin DOMAIN elementMap
            \/ relationship.target \notin DOMAIN elementMap
         THEN validateFrom(elementMap, relationships, i + 1, errors)
         ELSE LET source == elementMap[relationship.source]
                  target == elementMap[relationship.target]
                  allowedRelationships == MatrixGet(source.type, target.type)
              IN IF IsInvalid(allowedRelationships, relationship.type)
                 THEN validateFrom(elementMap, relationships, i + 1,
                        Append(errors, ValidationError(source, target, relationship)))
                 ELSE validateFrom(elementMap, relationships, i + 1, errors)

\* Validator.validate
validate(elements, relationships) ==
    validateFrom(ElementMap(elements), relationships, 1, <<>>)

-----------------------------------------------------------------------------
(* xml-export/layout-engine.ts *)

\* The layer order of the default configuration, which is also the order the
\* element generator groups by
CanonicalLayerOrder ==
    <<Layer_MOTIVATION, Layer_STRATEGY, Layer_BUSINESS, Layer_APPLICATION,
      Layer_TECHNOLOGY, Layer_PHYSICAL, Layer_IMPLEMENTATION>>

\* The defaults of the LayoutEngine constructor
DefaultLayoutConfiguration ==
    [gridSpacing |-> 20,
     layerVerticalSpacing |-> 120,
     elementSpacing |-> 180,
     defaultElementSize |-> [width |-> 120, height |-> 55],
     layerOrder |-> CanonicalLayerOrder,
     viewportPadding |-> 60]

\* Partial<LayoutConfiguration> with no field set
EmptyPartial ==
    [gridSpacing |-> None, layerVerticalSpacing |-> None, elementSpacing |-> None,
     defaultElementSize |-> None, layerOrder |-> None, viewportPadding |-> None]

\* new LayoutEngine(config): { ...defaults, ...config }
LayoutEngine(config) ==
    [k \in DOMAIN DefaultLayoutConfiguration |->
        IF IsSome(config[k]) THEN Val(config[k]) ELSE DefaultLayoutConfiguration[k]]

\* The element type tags in the order of String.prototype.localeCompare
TypesInLocaleOrder ==
    <<"ApplicationComponent", "BusinessActor", "BusinessProcess", "BusinessRole",
      "Deliverable", "Goal", "Location", "Node", "ValueStream">>

TypeRank(type) == CHOOSE i \in DOMAIN TypesInLocaleOrder : TypesInLocaleOrder[i] = type

\* The mutant of TypeLeq: the comparison is reversed
TypeLeq_Reversed(a, b) == TypeRank(a.type) >= TypeRank(b.type)

\* a.type.localeCompare(b.type) <= 0
TypeLeq(a, b) == TypeRank(a.type) <= TypeRank(b.type)

\* Insertion of e into a sorted list, after the elements that do not follow it
RECURSIVE InsertByType(_, _)
InsertByType(sorted, e) ==
    IF sorted = <<>> THEN <<e>>
    ELSE IF TypeLeq(Head(sorted), e)
         THEN <<Head(sorted)>> \o InsertByType(Tail(sorted), e)
         ELSE <<e>> \o sorted

\* [...elements].sort((a, b) => a.type.localeCompare(b.type)): a stable sort
RECURSIVE SortByType(_)
SortByType(elements) ==
    IF elements = <<>> THEN <<>>
    ELSE InsertByType(SortByType(SubSeq(elements, 1, Len(elements) - 1)),
                      elements[Len(elements)])

\* The typeAdjustments table of getElementDimensions
typeAdjustments ==
    [BusinessActor |-> [width |-> 140, height |-> 60],
     BusinessProcess |-> [width |-> 160, height |-> 60],
     ApplicationComponent |-> [width |-> 150, height |-> 70],
     ApplicationService |-> [width |-> 140, height |-> 60],
     DataObject |-> [width |-> 100, height |-> 50],
     Node |-> [width |-> 130, height |-> 65],
     Device |-> [width |-> 120, height |-> 55]]

\* The mutant of getElementDimensions: a name of 16 characters does not widen
getElementDimensions_WidenAbove16(config, element) ==
    LET nameLength == Len(element.name)
        baseSize ==
            [width |-> IF nameLength > 16
                       THEN Max2(config.defaultElementSize.width, nameLength * 8)
                       ELSE config.defaultElementSize.width,
             height |-> config.defaultElementSize.height]
    IN IF element.type \in DOMAIN typeAdjustments
       THEN [width |-> Max2(baseSize.width, typeAdjustments[element.type].width),
             height |-> Max2(baseSize.height, typeAdjustments[element.type].height)]
       ELSE baseSize

\* LayoutEngine.getElementDimensions
getElementDimensions(config, element) ==
    LET nameLength == Len(element.name)
        baseSize ==
            [width |-> IF nameLength > 15
                       THEN Max2(config.defaultElementSize.width, nameLength * 8)
                       ELSE config.defaultElementSize.width,
             height |-> config.defaultElementSize.height]
    IN IF element.type \in DOMAIN typeAdjustments
       THEN [width |-> Max2(baseSize.width, typeAdjustments[element.type].width),
             height |-> Max2(baseSize.height, typeAdjustments[element.type].height)]
       ELSE baseSize

\* The mutant of configAfterGetElementDimensions: baseSize aliases the
\* configuration's defaultElementSize instead of copying it, so that widening
\* baseSize for a long name widens the engine's default
configAfterGetElementDimensions_Aliased(config, element) ==
    IF Len(element.name) > 15
    THEN [config EXCEPT !.defaultElementSize.width = Max2(@, Len(element.name) * 8)]
    ELSE config

\* The engine's configuration after getElementDimensions(element): baseSize is
\* a spread copy of defaultElementSize, so no assignment reaches this.config
configAfterGetElementDimensions(config, element) == config

\* Map.prototype.set
MapSet(map, key, value) ==
    [k \in DOMAIN map \cup {key} |-> IF k = key THEN value ELSE map[k]]

EmptyMap == [k \in {} |-> 0]

\* The for loop of layoutLayer over the sorted elements, from element i on; acc
\* holds positions, dimensions, currentX and maxHeight
RECURSIVE layoutLayerFrom(_, _, _, _, _)
layoutLayerFrom(config, sortedElements, startY, i, acc) ==
    IF i > Len(sortedElements) THEN acc
    ELSE LET element == sortedElements[i]
             elementDims == getElementDimensions(config, element)
         IN layoutLayerFrom(config, sortedElements, startY, i + 1,
              [positions |-> MapSet(acc.positions, element.id,
                                    [x |-> acc.currentX, y |-> startY]),
               dimensions |-> MapSet(acc.dimensions, element.id, elementDims),
               currentX |-> acc.currentX + elementDims.width + config.elementSpacing,
               maxHeight |-> Max2(acc.maxHeight, elementDims.height)])

\* The mutant of NextRowOffset: the row offset is not advanced
NextRowOffset_NotAdvanced(config, startY, maxHeight) == startY

\* nextY of layoutLayer: the next layer's row offset
NextRowOffset(config, startY, maxHeight) ==
    startY + maxHeight + config.layerVerticalSpacing

\* The mutant of layoutLayer: maxX is the left edge of the slot after the row
layoutLayer_MaxXAtNextSlot(config, elements, startY) ==
    LET done == layoutLayerFrom(config, SortByType(elements), startY, 1,
                    [positions |-> EmptyMap, dimensions |-> EmptyMap,
                     currentX |-> config.viewportPadding, maxHeight |-> 0])
    IN [positions |-> done.positions,
        dimensions |-> done.dimensions,
        nextY |-> NextRowOffset(config, startY, done.maxHeight),
        maxX |-> done.currentX - config.elementSpacing - config.viewportPadding]

\* LayoutEngine.layoutLayer
layoutLayer(config, elements, startY) ==
    LET done == layoutLayerFrom(config, SortByType(elements), startY, 1,
                    [positions |-> EmptyMap, dimensions |-> EmptyMap,
                     currentX |-> config.viewportPadding, maxHeight |-> 0])
    IN [positions |-> done.positions,
        dimensions |-> done.dimensions,
        nextY |-> NextRowOffset(config, startY, done.maxHeight),
        maxX |-> done.currentX - config.elementSpacing]

\* elementsByLayer.get(layer) || [] after groupElementsByLayer: the elements of
\* the layer, in input order
ElementsOfLayer(elements, layer) == SelectSeq(elements, LAMBDA e : e.layer = layer)

\* for (const [id, v] of layerMap) resultMap.set(id, v)
MapSetAll(map, layerMap) ==
    [k \in DOMAIN map \cup DOMAIN layerMap |->
        IF k \in DOMAIN layerMap THEN layerMap[k] ELSE map[k]]

\* The for loop of generateLayout over config.layerOrder, from layer i on; acc
\* holds elementPositions, elementDimensions, currentY and maxWidth
RECURSIVE generateLayoutFrom(_, _, _, _)
generateLayoutFrom(config, elements, i, acc) ==
    IF i > Len(config.layerOrder) THEN acc
    ELSE LET layerElements == ElementsOfLayer(elements, config.layerOrder[i]) IN
         IF Len(layerElements) = 0
         THEN generateLayoutFrom(config, elements, i + 1, acc)
         ELSE LET layerLayout == layoutLayer(config, layerElements, acc.currentY)
              IN generateLayoutFrom(config, elements, i + 1,
                   [elementPositions |->
                        MapSetAll(acc.elementPositions, layerLayout.positions),
                    elementDimensions |->
                        MapSetAll(acc.elementDimensions, layerLayout.dimensions),
                    currentY |-> layerLayout.nextY,
                    maxWidth |-> Max2(acc.maxWidth, layerLayout.maxX)])

\* The mutant of generateLayout: the viewport is not padded
generateLayout_Unpadded(config, elements, relationships) ==
    LET done == generateLayoutFrom(config, elements, 1,
                    [elementPositions |-> EmptyMap, elementDimensions |-> EmptyMap,
                     currentY |-> config.viewportPadding, maxWidth |-> 0])
    IN [elementPositions |-> done.elementPositions,
        elementDimensions |-> done.elementDimensions,
        viewportSize |-> [width |-> done.maxWidth, height |-> done.currentY]]

\* LayoutEngine.generateLayout (the relationships argument is not read)
generateLayout(config, elements, relationships) ==
    LET done == generateLayoutFrom(config, elements, 1,
                    [elementPositions |-> EmptyMap, elementDimensions |-> EmptyMap,
                     currentY |-> config.viewportPadding, maxWidth |-> 0])
    IN [elementPositions |-> done.elementPositions,
        elementDimensions |-> done.elementDimensions,
        viewportSize |-> [width |-> done.maxWidth + config.viewportPadding,
                          height |-> done.currentY + config.viewportPadding]]

\* LayoutEngine.buildConnectionMap: for every endpoint the ids it is connected
\* with, in either direction
buildConnectionMap(relationships) ==
    [id \in {relationships[k].source : k \in DOMAIN relationships}
            \cup {relationships[k].target : k \in DOMAIN relationships} |->
        {relationships[k].target :
            k \in {k \in DOMAIN relationships : relationships[k].source = id}}
        \cup {relationships[k].source :
            k \in {k \in DOMAIN relationships : relationships[k].target = id}}]

\* The mutant of optimizeForConnections: a connected element is moved by the
\* grid spacing
optimizeForConnections_Moved(positions, connections, dimensions) ==
    [id \in DOMAIN positions |->
        IF id \in DOMAIN connections
        THEN [positions[id] EXCEPT !.x = @ + 20]
        ELSE positions[id]]

\* LayoutEngine.optimizeForConnections: new Map(positions)
optimizeForConnections(positions, connections, dimensions) ==
    [id \in DOMAIN positions |-> positions[id]]

\* LayoutEngine.generateRelationshipAwareLayout
generateRelationshipAwareLayout(config, elements, relationships) ==
    LET basicLayout == generateLayout(config, elements, relationships)
    IN [basicLayout EXCEPT
           !.elementPositions =
               optimizeForConnections(basicLayout.elementPositions,
                                      buildConnectionMap(relationships),
                                      basicLayout.elementDimensions)]

\* The engine's configuration after generateLayout(elements): what the calls of
\* getElementDimensions leave of it
RECURSIVE configAfterGenerateLayout(_, _)
configAfterGenerateLayout(config, elements) ==
    IF elements = <<>> THEN config
    ELSE configAfterGenerateLayout(
             configAfterGetElementDimensions(config, Head(elements)), Tail(elements))

-----------------------------------------------------------------------------
(* xml-export/element-xml-generator.ts and xml-export/relationship-xml-    *)
(* generator.ts: escaping and the fragment of one element or relationship  *)

\* text.replace(/c/g, replacement) for a character c and a replacement
\* without $ patterns
RECURSIVE ReplaceAll(_, _, _)
ReplaceAll(text, c, replacement) ==
    IF text = <<>> THEN <<>>
    ELSE (IF Head(text) = c THEN replacement ELSE <<Head(text)>>)
         \o ReplaceAll(Tail(text), c, replacement)

Entity_amp == <<"&", "a", "m", "p", ";">>
Entity_lt == <<"&", "l", "t", ";">>
Entity_gt == <<"&", "g", "t", ";">>
Entity_quot == <<"&", "q", "u", "o", "t", ";">>
Entity_39 == <<"&", "#", "3", "9", ";">>
Entity_apos == <<"&", "a", "p", "o", "s", ";">>

\* The mutant of ElementXmlGenerator_escapeXml: the ampersand is replaced last
ElementXmlGenerator_escapeXml_AmpLast(text) ==
    ReplaceAll(ReplaceAll(ReplaceAll(ReplaceAll(ReplaceAll(text,
        "<", Entity_lt), ">", Entity_gt), "\"", Entity_quot), "'", Entity_39),
        "&", Entity_amp)

\* ElementXmlGenerator.escapeXml: five replacements, the ampersand first
ElementXmlGenerator_escapeXml(text) ==
    ReplaceAll(ReplaceAll(ReplaceAll(ReplaceAll(ReplaceAll(text,
        "&", Entity_amp), "<", Entity_lt), ">", Entity_gt), "\"", Entity_quot),
        "'", Entity_39)

\* RelationshipXmlGenerator.escapeXml
RelationshipXmlGenerator_escapeXml(text) ==
    ReplaceAll(ReplaceAll(ReplaceAll(ReplaceAll(ReplaceAll(text,
        "&", Entity_amp), "<", Entity_lt), ">", Entity_gt), "\"", Entity_quot),
        "'", Entity_39)

\* Whether text has pattern at position i
HasAt(text, i, pattern) ==
    /\ i + Len(pattern) - 1 <= Len(text)
    /\ SubSeq(text, i, i + Len(pattern) - 1) = pattern

\* The grave accent character (U+0060) as a symbol of a text; the symbol is
\* written by its code point
GraveAccent == "U+0060"

\* The replacement string of String.prototype.replace(string, string) with
\* its $ patterns expanded: $$ is $, $& the match, $ with a grave accent the
\* text before the match, $ with an apostrophe the text after it
RECURSIVE ExpandReplacement(_, _, _, _)
ExpandReplacement(replacement, matched, before, after) ==
    IF replacement = <<>> THEN <<>>
    ELSE IF Head(replacement) = "$" /\ Len(replacement) >= 2
              /\ replacement[2] \in {"$", "&", GraveAccent, "'"}
         THEN (CASE replacement[2] = "$" -> <<"$">>
                 [] replacement[2] = "&" -> matched
                 [] replacement[2] = GraveAccent -> before
                 [] replacement[2] = "'" -> after)
              \o ExpandReplacement(Tail(Tail(replacement)), matched, before, after)
         ELSE <<Head(replacement)>>
              \o ExpandReplacement(Tail(replacement), matched, before, after)

\* text.replace(token, replacement): the first occurrence of token only
JsReplace(text, token, replacement) ==
    LET at == {i \in DOMAIN text : HasAt(text, i, token)} IN
    IF at = {} THEN text
    ELSE LET i == CHOOSE k \in at : \A m \in at : k <= m
             before == SubSeq(text, 1, i - 1)
             after == SubSeq(text, i + Len(token), Len(text))
         IN before \o ExpandReplacement(replacement, token, before, after) \o after

\* templates/element-template.xml: one element node with its type
\* discriminator, identifier, name and documentation; a piece of markup is one
\* symbol, a placeholder is one symbol
ElementTemplate ==
    <<"<element identifier=\"", "{{ELEMENT_ID}}", "\" xsi:type=\"",
      "{{ELEMENT_TYPE}}", "\"><name>", "{{ELEMENT_NAME}}",
      "</name><documentation>", "{{ELEMENT_DOCUMENTATION}}",
      "</documentation></element>">>

\* ElementGenerationOptions with no option set
NoElementOptions ==
    [includeDocumentation |-> FALSE, documentationTemplate |-> None,
     groupByLayer |-> FALSE]

\* The layerDescriptions table of generateContextualDocumentation
layerDescriptions ==
    [Motivation |-> "represents the context or change drivers for the enterprise",
     Strategy |-> "represents the strategic direction and choices of the enterprise",
     Business |-> "represents business processes, functions, events, and actors",
     Application |-> "represents application components, services, and interfaces",
     Technology |-> "represents technology infrastructure and platforms",
     Physical |-> "represents physical elements like equipment and facilities",
     Implementation |-> "represents implementation and migration planning elements"]

\* ElementXmlGenerator.generateContextualDocumentation
generateContextualDocumentation(element) ==
    LET layerDesc == IF element.layer \in DOMAIN layerDescriptions
                     THEN layerDescriptions[element.layer]
                     ELSE "represents an enterprise architecture element"
    IN <<element.type, " ", "'">> \o element.name
       \o <<"'", " ", layerDesc, " in the ", element.layer, " layer">>

\* ElementXmlGenerator.generateDocumentation
generateDocumentation(element, options) ==
    IF ~options.includeDocumentation
    THEN <<element.type, " element: ">> \o element.name
    ELSE IF IsSome(options.documentationTemplate)
            /\ Val(options.documentationTemplate) # <<>>
         THEN JsReplace(JsReplace(JsReplace(Val(options.documentationTemplate),
                  <<"{{ELEMENT_TYPE}}">>, <<element.type>>),
                  <<"{{ELEMENT_NAME}}">>, element.name),
                  <<"{{ELEMENT_LAYER}}">>, <<element.layer>>)
         ELSE generateContextualDocumentation(element)

\* ElementXmlGenerator.generateElement
generateElement(element, options) ==
    LET documentation == generateDocumentation(element, options) IN
    JsReplace(JsReplace(JsReplace(JsReplace(ElementTemplate,
        <<"{{ELEMENT_TYPE}}">>, <<element.type>>),
        <<"{{ELEMENT_NAME}}">>, ElementXmlGenerator_escapeXml(element.name)),
        <<"{{ELEMENT_ID}}">>, ElementXmlGenerator_escapeXml(element.id)),
        <<"{{ELEMENT_DOCUMENTATION}}">>, ElementXmlGenerator_escapeXml(documentation))

\* result += this.generateElement(element, options) + '\n' for each element
RECURSIVE FragmentLines(_, _)
FragmentLines(elements, options) ==
    IF elements = <<>> THEN <<>>
    ELSE generateElement(Head(elements), options) \o <<"\n">>
         \o FragmentLines(Tail(elements), options)

\* layer.toUpperCase()
layerToUpperCase ==
    [Motivation |-> "MOTIVATION", Strategy |-> "STRATEGY", Business |-> "BUSINESS",
     Application |-> "APPLICATION", Technology |-> "TECHNOLOGY",
     Physical |-> "PHYSICAL", Implementation |-> "IMPLEMENTATION"]

\* The loop over layerOrder of generateElementsGroupedByLayer
RECURSIVE LayerBlocks(_, _, _)
LayerBlocks(layerOrder, elements, options) ==
    IF layerOrder = <<>> THEN <<>>
    ELSE (IF ElementsOfLayer(elements, Head(layerOrder)) = <<>> THEN <<>>
          ELSE <<"\n", "  <!-- ", layerToUpperCase[Head(layerOrder)], " LAYER ELEMENTS -->", "\n">>
               \o FragmentLines(SortByType(ElementsOfLayer(elements, Head(layerOrder))),
                                options))
         \o LayerBlocks(Tail(layerOrder), elements, options)

\* The mutant of generateElementsGroupedByLayer: the layers are taken in the
\* reverse order
generateElementsGroupedByLayer_Reversed(elements, options) ==
    <<"\n", "  <!-- ELEMENTS -->", "\n">>
    \o LayerBlocks(<<Layer_IMPLEMENTATION, Layer_PHYSICAL, Layer_TECHNOLOGY,
                     Layer_APPLICATION, Layer_BUSINESS, Layer_STRATEGY,
                     Layer_MOTIVATION>>, elements, options)

\* ElementXmlGenerator.generateElementsGroupedByLayer
generateElementsGroupedByLayer(elements, options) ==
    <<"\n", "  <!-- ELEMENTS -->", "\n">>
    \o LayerBlocks(CanonicalLayerOrder, elements, options)

\* ElementXmlGenerator.generateElements
generateElements(elements, options) ==
    IF elements = <<>> THEN <<>>
    ELSE IF options.groupByLayer THEN generateElementsGroupedByLayer(elements, options)
    ELSE <<"\n", "  <!-- ELEMENTS -->", "\n">> \o FragmentLines(elements, options)

\* templates/relationship-template.xml
RelationshipTemplate ==
    <<"<relationship identifier=\"", "{{RELATIONSHIP_ID}}", "\" source=\"",
      "{{SOURCE_ID}}", "\" target=\"", "{{TARGET_ID}}", "\" xsi:type=\"",
      "{{RELATIONSHIP_TYPE}}", "\"><name>", "{{RELATIONSHIP_NAME}}",
      "</name></relationship>">>

\* RelationshipGenerationOptions with no option set
NoRelationshipOptions ==
    [includeNames |-> FALSE, validateReferences |-> FALSE, groupByType |-> FALSE,
     includeDocumentation |-> FALSE]

\* The verbs table of getRelationshipVerb
verbs ==
    [Composition |-> "composes", Aggregation |-> "aggregates",
     Assignment |-> "is assigned to", Realization |-> "realizes",
     Serving |-> "serves", Access |-> "accesses", Influence |-> "influences",
     Triggering |-> "triggers", Flow |-> "flows to",
     Specialization |-> "specializes", Association |-> "associates with",
     Junction |-> "joins with"]

\* RelationshipXmlGenerator.getRelationshipVerb
getRelationshipVerb(type) ==
    IF type \in DOMAIN verbs THEN verbs[type] ELSE "relates to"

\* elements.find(e => e.id === id): the first element with the id
Find(elements, id) ==
    LET at == {i \in DOMAIN elements : elements[i].id = id} IN
    IF at = {} THEN None
    ELSE Some(elements[CHOOSE k \in at : \A m \in at : k <= m])

\* RelationshipXmlGenerator.generateRelationshipName; elements is <<>> when the
\* argument is left out
generateRelationshipName(relationship, options, elements) ==
    IF ~options.includeNames THEN <<>>
    ELSE LET sourceElement == IF IsSome(elements)
                              THEN Find(Val(elements), relationship.source)
                              ELSE None
             targetElement == IF IsSome(elements)
                              THEN Find(Val(elements), relationship.target)
                              ELSE None
         IN IF IsSome(sourceElement) /\ IsSome(targetElement)
            THEN Val(sourceElement).name
                 \o <<" ", getRelationshipVerb(relationship.type), " ">>
                 \o Val(targetElement).name
            ELSE <<relationship.type, " relationship">>

\* The mutant of validateRelationshipReferences: the target is not looked up
validateRelationshipReferences_SourceOnly(relationship, elements) ==
    LET elementIds == {elements[i].id : i \in DOMAIN elements} IN
    IF relationship.source \notin elementIds
    THEN Some(<<"Relationship ">> \o relationship.id
              \o <<" references non-existent source element: ">>
              \o relationship.source)
    ELSE None

\* RelationshipXmlGenerator.validateRelationshipReferences: the message of
\* the error it throws, None when it returns
validateRelationshipReferences(relationship, elements) ==
    LET elementIds == {elements[i].id : i \in DOMAIN elements} IN
    IF relationship.source \notin elementIds
    THEN Some(<<"Relationship ">> \o relationship.id
              \o <<" references non-existent source element: ">>
              \o relationship.source)
    ELSE IF relationship.target \notin elementIds
         THEN Some(<<"Relationship ">> \o relationship.id
                   \o <<" references non-existent target element: ">>
                   \o relationship.target)
         ELSE None

\* What a call returns or throws
Returned(value) == [ok |-> TRUE, value |-> value]
Thrown(message) == [ok |-> FALSE, message |-> message]

\* new RelationshipXmlGenerator(): this.templatePath = join(__dirname,
\* 'templates').  The file declares no __dirname, so the read is of a free
\* variable: where nothing defines it the constructor throws a
\* ReferenceError, else it returns the generator
RelationshipXmlGenerator ==
    IF IsSome(__dirname)
    THEN Returned([templatePath |-> Val(__dirname) \o <<"/", "templates">>])
    ELSE Thrown(<<"__dirname is not defined">>)

\* RelationshipXmlGenerator.generateRelationship
generateRelationship(relationship, options, elements) ==
    LET thrown == IF options.validateReferences /\ IsSome(elements)
                  THEN validateRelationshipReferences(relationship, Val(elements))
                  ELSE None
        relationshipName == generateRelationshipName(relationship, options, elements)
    IN IF IsSome(thrown) THEN Thrown(Val(thrown))
       ELSE Returned(
           JsReplace(JsReplace(JsReplace(JsReplace(JsReplace(RelationshipTemplate,
               <<"{{RELATIONSHIP_TYPE}}">>, <<relationship.type>>),
               <<"{{RELATIONSHIP_NAME}}">>,
                   RelationshipXmlGenerator_escapeXml(relationshipName)),
               <<"{{RELATIONSHIP_ID}}">>,
                   RelationshipXmlGenerator_escapeXml(relationship.id)),
               <<"{{SOURCE_ID}}">>,
                   RelationshipXmlGenerator_escapeXml(relationship.source)),
               <<"{{TARGET_ID}}">>,
                   RelationshipXmlGenerator_escapeXml(relationship.target)))

\* The loop `for (const relationship of relationships) result +=
\* this.generateRelationship(...) + '\n'`: the first error ends the call
RECURSIVE AppendRelationships(_, _, _, _)
AppendRelationships(result, relationships, options, elements) ==
    IF relationships = <<>> THEN Returned(result)
    ELSE LET generated == generateRelationship(Head(relationships), options, elements)
         IN IF ~generated.ok THEN generated
            ELSE AppendRelationships(result \o generated.value \o <<"\n">>,
                                     Tail(relationships), options, elements)

\* typeOrder of generateRelationshipsGroupedByType
typeOrder ==
    <<"Composition", "Aggregation", "Assignment", "Realization", "Serving",
      "Access", "Influence", "Triggering", "Flow", "Specialization",
      "Association", "Junction">>

\* type.toUpperCase()
toUpperCase(type) ==
    CASE type = "Composition" -> "COMPOSITION"
      [] type = "Aggregation" -> "AGGREGATION"
      [] type = "Assignment" -> "ASSIGNMENT"
      [] type = "Realization" -> "REALIZATION"
      [] type = "Serving" -> "SERVING"
      [] type = "Access" -> "ACCESS"
      [] type = "Influence" -> "INFLUENCE"
      [] type = "Triggering" -> "TRIGGERING"
      [] type = "Flow" -> "FLOW"
      [] type = "Specialization" -> "SPECIALIZATION"
      [] type = "Association" -> "ASSOCIATION"
      [] type = "Junction" -> "JUNCTION"

\* RelationshipXmlGenerator.groupRelationshipsByType: the relationships of a
\* type, in the order of the list
groupRelationshipsByType(relationships, type) ==
    SelectSeq(relationships, LAMBDA relationship : relationship.type = type)

\* The loop over typeOrder of generateRelationshipsGroupedByType, from the
\* i-th type on
RECURSIVE GroupedFrom(_, _, _, _, _)
GroupedFrom(result, i, relationships, options, elements) ==
    IF ~result.ok \/ i > Len(typeOrder) THEN result
    ELSE LET typeRelationships == groupRelationshipsByType(relationships, typeOrder[i])
         IN GroupedFrom(
                IF Len(typeRelationships) > 0
                THEN AppendRelationships(
                         result.value \o <<"\n  <!-- ", toUpperCase(typeOrder[i]),
                                           " RELATIONSHIPS -->\n">>,
                         typeRelationships, options, elements)
                ELSE result,
                i + 1, relationships, options, elements)

\* RelationshipXmlGenerator.generateRelationshipsGroupedByType
generateRelationshipsGroupedByType(relationships, options, elements) ==
    GroupedFrom(Returned(<<"\n  <!-- RELATIONSHIPS -->\n">>), 1, relationships,
                options, elements)

\* RelationshipXmlGenerator.generateRelationships
generateRelationships(relationships, options, elements) ==
    IF Len(relationships) = 0 THEN Returned(<<>>)
    ELSE IF options.groupByType
         THEN generateRelationshipsGroupedByType(relationships, options, elements)
         ELSE AppendRelationships(<<"\n  <!-- RELATIONSHIPS -->\n">>, relationships,
                                  options, elements)

-----------------------------------------------------------------------------
(* core/element_factory.ts *)

\* ElementFactory.create: the element, or the error of the default case.  A
\* case `return new X(id, name)` is the BaseElement the constructor of X
\* makes; for Driver, Principle, Requirement, Value, Resource,
\* BusinessInterface, BusinessInteraction, ApplicationInterface, Path and
\* Facility, whose class files are not among the sources, the layer is the
\* one ElementType lists the type under.
ElementFactory_create(type, id, name) ==
    CASE type = "Stakeholder" -> Returned(BaseElement(id, name, "Stakeholder", Layer_MOTIVATION))
      [] type = "Driver" -> Returned(BaseElement(id, name, "Driver", Layer_MOTIVATION))
      [] type = "Assessment" -> Returned(BaseElement(id, name, "Assessment", Layer_MOTIVATION))
      [] type = "Goal" -> Returned(Goal(id, name))
      [] type = "Outcome" -> Returned(BaseElement(id, name, "Outcome", Layer_MOTIVATION))
      [] type = "Principle" -> Returned(BaseElement(id, name, "Principle", Layer_MOTIVATION))
      [] type = "Requirement" -> Returned(BaseElement(id, name, "Requirement", Layer_MOTIVATION))
      [] type = "Constraint" -> Returned(BaseElement(id, name, "Constraint", Layer_MOTIVATION))
      [] type = "Meaning" -> Returned(BaseElement(id, name, "Meaning", Layer_MOTIVATION))
      [] type = "Value" -> Returned(BaseElement(id, name, "Value", Layer_MOTIVATION))
      [] type = "Resource" -> Returned(BaseElement(id, name, "Resource", Layer_STRATEGY))
      [] type = "Capability" -> Returned(BaseElement(id, name, "Capability", Layer_STRATEGY))
      [] type = "CourseOfAction" -> Returned(BaseElement(id, name, "CourseOfAction", Layer_STRATEGY))
      [] type = "BusinessActor" -> Returned(BusinessActor(id, name))
      [] type = "BusinessRole" -> Returned(BusinessRole(id, name))
      [] type = "BusinessCollaboration" -> Returned(BaseElement(id, name, "BusinessCollaboration", Layer_BUSINESS))
      [] type = "BusinessInterface" -> Returned(BaseElement(id, name, "BusinessInterface", Layer_BUSINESS))
      [] type = "BusinessProcess" -> Returned(BusinessProcess(id, name))
      [] type = "BusinessFunction" -> Returned(BaseElement(id, name, "BusinessFunction", Layer_BUSINESS))
      [] type = "BusinessInteraction" -> Returned(BaseElement(id, name, "BusinessInteraction", Layer_BUSINESS))
      [] type = "BusinessEvent" -> Returned(BaseElement(id, name, "BusinessEvent", Layer_BUSINESS))
      [] type = "BusinessService" -> Returned(BaseElement(id, name, "BusinessService", Layer_BUSINESS))
      [] type = "BusinessObject" -> Returned(BaseElement(id, name, "BusinessObject", Layer_BUSINESS))
      [] type = "Contract" -> Returned(BaseElement(id, name, "Contract", Layer_BUSINESS))
      [] type = "Representation" -> Returned(BaseElement(id, name, "Representation", Layer_BUSINESS))
      [] type = "Product" -> Returned(BaseElement(id, name, "Product", Layer_BUSINESS))
      [] type = "ApplicationComponent" -> Returned(ApplicationComponent(id, name))
      [] type = "ApplicationCollaboration" -> Returned(BaseElement(id, name, "ApplicationCollaboration", Layer_APPLICATION))
      [] type = "ApplicationInterface" -> Returned(BaseElement(id, name, "ApplicationInterface", Layer_APPLICATION))
      [] type = "ApplicationFunction" -> Returned(BaseElement(id, name, "ApplicationFunction", Layer_APPLICATION))
      [] type = "ApplicationInteraction" -> Returned(BaseElement(id, name, "ApplicationInteraction", Layer_APPLICATION))
      [] type = "ApplicationProcess" -> Returned(BaseElement(id, name, "ApplicationProcess", Layer_APPLICATION))
      [] type = "ApplicationEvent" -> Returned(BaseElement(id, name, "ApplicationEvent", Layer_APPLICATION))
      [] type = "ApplicationService" -> Returned(BaseElement(id, name, "ApplicationService", Layer_APPLICATION))
      [] type = "DataObject" -> Returned(BaseElement(id, name, "DataObject", Layer_APPLICATION))
      [] type = "Node" -> Returned(Node(id, name))
      [] type = "Device" -> Returned(BaseElement(id, name, "Device", Layer_TECHNOLOGY))
      [] type = "SystemSoftware" -> Returned(BaseElement(id, name, "SystemSoftware", Layer_TECHNOLOGY))
      [] type = "TechnologyCollaboration" -> Returned(BaseElement(id, name, "TechnologyCollaboration", Layer_TECHNOLOGY))
      [] type = "TechnologyInterface" -> Returned(BaseElement(id, name, "TechnologyInterface", Layer_TECHNOLOGY))
      [] type = "Path" -> Returned(BaseElement(id, name, "Path", Layer_TECHNOLOGY))
      [] type = "CommunicationNetwork" -> Returned(BaseElement(id, name, "CommunicationNetwork", Layer_TECHNOLOGY))
      [] type = "TechnologyFunction" -> Returned(BaseElement(id, name, "TechnologyFunction", Layer_TECHNOLOGY))
      [] type = "TechnologyProcess" -> Returned(BaseElement(id, name, "TechnologyProcess", Layer_TECHNOLOGY))
      [] type = "TechnologyInteraction" -> Returned(BaseElement(id, name, "TechnologyInteraction", Layer_TECHNOLOGY))
      [] type = "TechnologyEvent" -> Returned(BaseElement(id, name, "TechnologyEvent", Layer_TECHNOLOGY))
      [] type = "TechnologyService" -> Returned(BaseElement(id, name, "TechnologyService", Layer_TECHNOLOGY))
      [] type = "Artifact" -> Returned(BaseElement(id, name, "Artifact", Layer_TECHNOLOGY))
      [] type = "Equipment" -> Returned(BaseElement(id, name, "Equipment", Layer_PHYSICAL))
      [] type = "Facility" -> Returned(BaseElement(id, name, "Facility", Layer_PHYSICAL))
      [] type = "DistributionNetwork" -> Returned(BaseElement(id, name, "DistributionNetwork", Layer_PHYSICAL))
      [] type = "Material" -> Returned(BaseElement(id, name, "Material", Layer_PHYSICAL))
      [] type = "Location" -> Returned(Location(id, name))
      [] type = "WorkPackage" -> Returned(BaseElement(id, name, "WorkPackage", Layer_IMPLEMENTATION))
      [] type = "Deliverable" -> Returned(Deliverable(id, name))
      [] type = "ImplementationEvent" -> Returned(BaseElement(id, name, "ImplementationEvent", Layer_IMPLEMENTATION))
      [] type = "Plateau" -> Returned(BaseElement(id, name, "Plateau", Layer_IMPLEMENTATION))
      [] type = "Gap" -> Returned(BaseElement(id, name, "Gap", Layer_IMPLEMENTATION))
      [] OTHER -> Thrown(<<"Unknown element type: ", type>>)

-----------------------------------------------------------------------------
(* xml-export/color-theme.ts                                               *)

MotivationTypes ==
    {"Stakeholder", "Driver", "Assessment", "Goal", "Outcome", "Principle",
     "Requirement", "Constraint"}
StrategyTypes == {"Resource", "Capability", "ValueStream", "CourseOfAction"}
BusinessTypes ==
    {"BusinessActor", "BusinessRole", "BusinessCollaboration", "BusinessInterface",
     "BusinessProcess", "BusinessFunction", "BusinessInteraction", "BusinessEvent",
     "BusinessService", "BusinessObject", "Contract", "Representation", "Product"}
ApplicationTypes ==
    {"ApplicationComponent", "ApplicationCollaboration", "ApplicationInterface",
     "ApplicationFunction", "ApplicationInteraction", "ApplicationProcess",
     "ApplicationEvent", "ApplicationService", "DataObject"}
TechnologyTypes ==
    {"Node", "Device", "SystemSoftware", "TechnologyCollaboration",
     "TechnologyInterface", "TechnologyFunction", "TechnologyProcess",
     "TechnologyInteraction", "TechnologyEvent", "TechnologyService", "Path",
     "CommunicationNetwork", "Artifact"}
PhysicalTypes == {"Equipment", "Facility", "DistributionNetwork", "Material"}
ImplementationTypes ==
    {"WorkPackage", "Deliverable", "ImplementationEvent", "Plateau", "Gap"}

\* Object.values(ElementType): the types above and the three DEFAULT_COLORS
\* has no entry for
ElementTypes ==
    MotivationTypes \cup StrategyTypes \cup BusinessTypes \cup ApplicationTypes
    \cup TechnologyTypes \cup PhysicalTypes \cup ImplementationTypes
    \cup {"Meaning", "Value", "Location"}

ColorMapping(fill, line, text) ==
    [fillColor |-> fill, lineColor |-> line, textColor |-> text]

\* ColorTheme.DEFAULT_COLORS
DEFAULT_COLORS ==
    [t \in MotivationTypes \cup StrategyTypes \cup BusinessTypes
           \cup ApplicationTypes \cup TechnologyTypes \cup PhysicalTypes
           \cup ImplementationTypes |->
        CASE t \in MotivationTypes -> ColorMapping("#E6D3FF", "#8B66CC", "#000000")
          [] t \in StrategyTypes -> ColorMapping("#D1E7FF", "#5B9BD5", "#000000")
          [] t \in BusinessTypes -> ColorMapping("#FFFACD", "#FFD700", "#000000")
          [] t \in ApplicationTypes -> ColorMapping("#E6FFE6", "#70AD47", "#000000")
          [] t \in TechnologyTypes -> ColorMapping("#FFE6CC", "#C5504B", "#000000")
          [] t \in PhysicalTypes -> ColorMapping("#F2F2F2", "#7F7F7F", "#000000")
          [] t \in ImplementationTypes -> ColorMapping("#FFCCCB", "#FF6B6B", "#000000")]

\* new ColorTheme(customMappings): its colorMappings
ColorTheme(customMappings) ==
    [t \in DOMAIN DEFAULT_COLORS \cup DOMAIN customMappings |->
        IF t \in DOMAIN customMappings THEN customMappings[t] ELSE DEFAULT_COLORS[t]]

\* A ColorTheme object is kept as three fields.  preset and set are its
\* colorMappings: the table the map was last filled from (that of a factory,
\* or "none" after the clear() of importTheme) and the entries put over it
\* since, those equal to the table's left out.  ref is the object's
\* identity: 0 for a theme the library makes for itself, which no caller
\* holds, 1 for the theme object the caller made and keeps a reference to.
\* The insertion order of the map is not kept
createArchiMateTheme == [ref |-> 0, preset |-> "archimate", set |-> EmptyMap]
createMonochromeTheme == [ref |-> 0, preset |-> "monochrome", set |-> EmptyMap]
createHighContrastTheme == [ref |-> 0, preset |-> "high-contrast", set |-> EmptyMap]

\* theme = ColorTheme.create...Theme() in the caller's code: the object is
\* the caller's
CallersTheme(theme) == [theme EXCEPT !.ref = 1]

\* The table a factory fills the map with; the empty map after clear()
PresetMappings(preset) ==
    CASE preset = "archimate" -> ColorTheme(EmptyMap)
      [] preset = "monochrome" ->
             ColorTheme([t \in ElementTypes |->
                            ColorMapping("#F5F5F5", "#333333", "#000000")])
      [] preset = "high-contrast" ->
             ColorTheme([t \in ElementTypes |->
                            ColorMapping("#FFFFFF", "#000000", "#000000")])
      [] preset = "none" -> EmptyMap

\* this.colorMappings
colorMappings(colorTheme) ==
    [t \in DOMAIN PresetMappings(colorTheme.preset) \cup DOMAIN colorTheme.set |->
        IF t \in DOMAIN colorTheme.set THEN colorTheme.set[t]
        ELSE PresetMappings(colorTheme.preset)[t]]

\* ColorTheme.setElementColors: this.colorMappings.set(elementType, colors)
setElementColors(this, elementType, colors) ==
    LET table == PresetMappings(this.preset)
        others == DOMAIN this.set \ {elementType}
        over == IF elementType \in DOMAIN table /\ table[elementType] = colors
                THEN others ELSE others \cup {elementType}
    IN [this EXCEPT !.set = [t \in over |->
                                IF t = elementType THEN colors ELSE this.set[t]]]

\* ColorTheme.resetToDefaults: clear(), then the entries of DEFAULT_COLORS
resetToDefaults(this) == [this EXCEPT !.preset = "archimate", !.set = EmptyMap]

\* ColorTheme.importTheme: clear(), then the entries of themeData
importTheme(this, themeData) == [this EXCEPT !.preset = "none", !.set = themeData]

\* ColorTheme.getColorsForElement
getColorsForElement(colorTheme, elementType) ==
    IF elementType \in DOMAIN colorMappings(colorTheme)
    THEN colorMappings(colorTheme)[elementType]
    ELSE ColorMapping("#FFFFFF", "#000000", "#000000")

-----------------------------------------------------------------------------
(* xml-export/view-xml-generator.ts.  A view generator is its layout        *)
(* engine's configuration and its colour theme.  A coordinate that may be  *)
(* a fraction is kept exactly: a centre is kept doubled, a bend point in   *)
(* quarters.                                                               *)

\* ViewOptions with no option set
NoViewOptions ==
    [viewId |-> None, viewName |-> None, viewType |-> None,
     backgroundColor |-> None, showGrid |-> None, gridSize |-> None,
     colorTheme |-> None]

\* new ViewXmlGenerator(colorTheme)
ViewXmlGenerator(colorTheme) ==
    [layoutEngine |-> LayoutEngine(EmptyPartial),
     colorTheme |-> IF IsSome(colorTheme) THEN Val(colorTheme)
                    ELSE createArchiMateTheme]

\* ViewXmlGenerator.escapeXml
ViewXmlGenerator_escapeXml(text) ==
    ReplaceAll(ReplaceAll(ReplaceAll(ReplaceAll(ReplaceAll(text,
        "&", Entity_amp), "<", Entity_lt), ">", Entity_gt), "\"", Entity_quot),
        "'", Entity_apos)

\* ViewXmlGenerator.createVisualElements
createVisualElements(this, elements, layoutResult) ==
    [i \in DOMAIN elements |->
        LET element == elements[i]
            position == IF element.id \in DOMAIN layoutResult.elementPositions
                        THEN layoutResult.elementPositions[element.id]
                        ELSE [x |-> 100, y |-> 100]
            dimensions == IF element.id \in DOMAIN layoutResult.elementDimensions
                          THEN layoutResult.elementDimensions[element.id]
                          ELSE [width |-> 120, height |-> 55]
            colors == getColorsForElement(this.colorTheme, element.type)
        IN [id |-> <<"visual-">> \o element.id,
            elementRef |-> element.id,
            x |-> position.x, y |-> position.y,
            width |-> dimensions.width, height |-> dimensions.height,
            fillColor |-> colors.fillColor, lineColor |-> colors.lineColor,
            textColor |-> colors.textColor]]

\* The mutant of DoubledCenter: the corner of the shape is taken for its centre
DoubledCenter_Corner(visual) ==
    [x |-> 2 * visual.x, y |-> 2 * visual.y]

\* Twice the centre of a visual element
DoubledCenter(visual) ==
    [x |-> 2 * visual.x + visual.width, y |-> 2 * visual.y + visual.height]

\* The threshold of calculateBendpoints
BendpointDistance == 200

\* distance > BendpointDistance, on the doubled centres and squared
IsLongConnection(sourceCenter2, targetCenter2) ==
    (targetCenter2.x - sourceCenter2.x) * (targetCenter2.x - sourceCenter2.x)
    + (targetCenter2.y - sourceCenter2.y) * (targetCenter2.y - sourceCenter2.y)
    > (2 * BendpointDistance) * (2 * BendpointDistance)

\* The mutant of calculateBendpoints: every connection is direct
calculateBendpoints_Direct(source, target) == None

\* ViewXmlGenerator.calculateBendpoints: undefined, or the one midpoint
calculateBendpoints(source, target) ==
    LET sourceCenter2 == DoubledCenter(source)
        targetCenter2 == DoubledCenter(target)
    IN IF IsLongConnection(sourceCenter2, targetCenter2)
       THEN Some(<<[xQuarters |-> sourceCenter2.x + targetCenter2.x,
                    yQuarters |-> sourceCenter2.y + targetCenter2.y]>>)
       ELSE None

\* elementMap of createVisualConnections: the last visual element of an
\* elementRef
VisualOf(visualElements, elementRef) ==
    LET at == {i \in DOMAIN visualElements : visualElements[i].elementRef = elementRef}
    IN IF at = {} THEN None ELSE Some(visualElements[SetMax(at)])

\* The mutant of createVisualConnections: a relationship without its two
\* visual elements is skipped
createVisualConnections_SkipMissing(relationships, visualElements) ==
    LET kept == SelectSeq(relationships, LAMBDA r :
                    /\ IsSome(VisualOf(visualElements, r.source))
                    /\ IsSome(VisualOf(visualElements, r.target)))
    IN Returned(
           [i \in DOMAIN kept |->
               [id |-> <<"connection-">> \o kept[i].id,
                relationshipRef |-> kept[i].id,
                source |-> Val(VisualOf(visualElements, kept[i].source)).id,
                target |-> Val(VisualOf(visualElements, kept[i].target)).id,
                lineColor |-> "#000000",
                lineWidth |-> 1,
                bendpoints |-> calculateBendpoints(
                                   Val(VisualOf(visualElements, kept[i].source)),
                                   Val(VisualOf(visualElements, kept[i].target)))]])

\* ViewXmlGenerator.createVisualConnections
createVisualConnections(relationships, visualElements) ==
    LET missing == {i \in DOMAIN relationships :
                       \/ ~IsSome(VisualOf(visualElements, relationships[i].source))
                       \/ ~IsSome(VisualOf(visualElements, relationships[i].target))}
    IN IF missing # {}
       THEN Thrown(<<"Missing visual elements for relationship ">>
                   \o relationships[CHOOSE i \in missing : \A j \in missing : i <= j].id)
       ELSE Returned(
           [i \in DOMAIN relationships |->
               LET relationship == relationships[i]
                   sourceVisual == Val(VisualOf(visualElements, relationship.source))
                   targetVisual == Val(VisualOf(visualElements, relationship.target))
               IN [id |-> <<"connection-">> \o relationship.id,
                   relationshipRef |-> relationship.id,
                   source |-> sourceVisual.id,
                   target |-> targetVisual.id,
                   lineColor |-> "#000000",
                   lineWidth |-> 1,
                   bendpoints |-> calculateBendpoints(sourceVisual, targetVisual)]])

\* An option or its default: options.x || default, for an option that is an
\* object when it is given
OrDefault(option, default) == IF IsSome(option) THEN Val(option) ELSE default

\* options.x || default for a text: the empty text gives the default
TextOrDefault(option, default) ==
    IF IsSome(option) /\ Val(option) # <<>> THEN Val(option) ELSE default

\* options.x || default for a name of a fixed vocabulary or a colour
NameOrDefault(option, default) ==
    IF IsSome(option) /\ Val(option) # "" THEN Val(option) ELSE default

\* options.x || default for a number: 0 gives the default
NumberOrDefault(option, default) ==
    IF IsSome(option) /\ Val(option) # 0 THEN Val(option) ELSE default

\* The identifier that is made from the clock when the caller gives none
TimeDerivedId(prefix) == <<prefix, "Date.now()">>

\* ViewXmlGenerator.generateViewXml: the values the view template is filled
\* with (the replacement arguments of its replace calls, each default taken
\* with ||), or the error thrown; the template that holds them together is
\* not part of the sources
ViewOf(options, visualElements, visualConnections) ==
    IF ~visualConnections.ok THEN visualConnections
    ELSE Returned(
           [viewId |-> TextOrDefault(options.viewId, TimeDerivedId("view-")),
            viewName |-> ViewXmlGenerator_escapeXml(
                             TextOrDefault(options.viewName, <<"ArchiMate View">>)),
            viewType |-> NameOrDefault(options.viewType, "diagram"),
            backgroundColor |-> NameOrDefault(options.backgroundColor, "#FFFFFF"),
            visualElements |-> visualElements,
            visualConnections |-> visualConnections.value,
            gridSize |-> NumberOrDefault(options.gridSize, 20),
            showGrid |-> options.showGrid # Some(FALSE)])

\* generateViewXml from the visual elements on: the connections, then the view
ViewOfElements(relationships, options, visualElements) ==
    ViewOf(options, visualElements,
           createVisualConnections(relationships, visualElements))

\* ViewXmlGenerator.generateViewXml: the layout, the visual elements, the
\* connections, the view; or the error createVisualConnections throws
generateViewXml(this, elements, relationships, options) ==
    ViewOfElements(relationships, options,
        createVisualElements(this, elements,
            generateLayout(this.layoutEngine, elements, relationships)))

\* The number of elements of each layer that has one
CountBy(keys) ==
    [k \in {keys[i] : i \in DOMAIN keys} |->
        Cardinality({i \in DOMAIN keys : keys[i] = k})]

LayerOf(elements) == [i \in DOMAIN elements |-> elements[i].layer]
TypeOf(items) == [i \in DOMAIN items |-> items[i].type]

\* ViewXmlGenerator.generateViewStatistics (what getLayoutStatistics returns
\* is not used)
ViewStatisticsOf(elements, relationships, layoutResult) ==
    [elementCount |-> Len(elements),
     relationshipCount |-> Len(relationships),
     layerDistribution |-> CountBy(LayerOf(elements)),
     estimatedDimensions |-> [width |-> layoutResult.viewportSize.width,
                              height |-> layoutResult.viewportSize.height]]

generateViewStatistics(this, elements, relationships) ==
    ViewStatisticsOf(elements, relationships,
        generateLayout(this.layoutEngine, elements, relationships))

-----------------------------------------------------------------------------
(* xml-export/model-xml-generator.ts, the model assembler.  It is made     *)
(* without arguments and is given the elements, the relationships and the  *)
(* model options only: its view is made by a view generator of its own.    *)

\* new ModelXmlGenerator()
ModelXmlGenerator == [viewGenerator |-> ViewXmlGenerator(None)]

\* The fragments of a list, one after the other
RECURSIVE Concat(_)
Concat(fragments) ==
    IF fragments = <<>> THEN <<>> ELSE Head(fragments) \o Concat(Tail(fragments))

\* ModelXmlGenerator.generate: the header, the element block, the
\* relationship block and, when views are requested, the one view block; or
\* the error the view generator throws
ModelOf(elements, relationships, modelOptions, view) ==
    IF ~view.ok THEN view
    ELSE Returned(
           [modelId |-> OrDefault(modelOptions.modelId, TimeDerivedId("model-")),
            modelName |-> modelOptions.modelName,
            modelPurpose |-> modelOptions.modelPurpose,
            elements |-> Concat([i \in DOMAIN elements |->
                            generateElement(elements[i], NoElementOptions)]),
            relationships |-> Concat([i \in DOMAIN relationships |->
                            generateRelationship(relationships[i],
                                NoRelationshipOptions, Some(elements)).value]),
            view |-> IF modelOptions.includeViews THEN Some(view.value) ELSE None])

ModelXmlGenerator_generate(this, elements, relationships, modelOptions) ==
    ModelOf(elements, relationships, modelOptions,
        IF modelOptions.includeViews
        THEN generateViewXml(this.viewGenerator, elements, relationships,
                 [NoViewOptions EXCEPT !.viewName = modelOptions.viewName])
        ELSE Returned(None))

-----------------------------------------------------------------------------
(* xml-export/xml-exporter.ts.  An exporter is its colorTheme, its         *)
(* layoutEngine (the engine's configuration), its viewGenerator and its    *)
(* modelGenerator.  A message is a sequence of symbols.                    *)

\* XmlExportOptions with no option set; a theme given by name is
\* ThemeName(name), one given as a ColorTheme is the theme
NoExportOptions ==
    [modelId |-> None, modelName |-> None, modelPurpose |-> None,
     includeViews |-> None, viewOptions |-> None,
     colorTheme |-> None, layoutConfiguration |-> None,
     validateModel |-> FALSE, strictValidation |-> FALSE,
     includeStatistics |-> FALSE]

ThemeName(name) == [named |-> name]
IsThemeName(theme) == DOMAIN theme = {"named"}

\* new XmlExporter(colorTheme, layoutConfig): the exporter, or what the
\* constructor of its relationship generator throws before the theme and the
\* layout engine are looked at
XmlExporter(colorTheme, layoutConfig) ==
    LET theme == OrDefault(colorTheme, createArchiMateTheme)
        engine == LayoutEngine(OrDefault(layoutConfig, EmptyPartial))
    IN IF ~RelationshipXmlGenerator.ok THEN RelationshipXmlGenerator
       ELSE Returned(
           [modelGenerator |-> ModelXmlGenerator,
            colorTheme |-> theme,
            layoutEngine |-> engine,
            viewGenerator |-> [ViewXmlGenerator(Some(theme))
                                  EXCEPT !.layoutEngine = engine]])

\* createXmlExporter(options): a theme given by name becomes the ArchiMate
\* theme; what new XmlExporter returns or throws
createXmlExporter(colorTheme, layoutConfig) ==
    XmlExporter(IF IsSome(colorTheme)
                THEN (IF IsThemeName(Val(colorTheme)) THEN Some(createArchiMateTheme)
                      ELSE colorTheme)
                ELSE None,
                layoutConfig)

\* XmlExporter.setColorTheme: the exporter after the call, or the error
setColorTheme(this, theme) ==
    IF IsThemeName(theme) /\ theme.named \notin {"archimate", "monochrome", "high-contrast"}
    THEN Thrown(<<"Unknown color theme: ", theme.named>>)
    ELSE LET colorTheme ==
                 IF IsThemeName(theme)
                 THEN CASE theme.named = "archimate" -> createArchiMateTheme
                        [] theme.named = "monochrome" -> createMonochromeTheme
                        [] theme.named = "high-contrast" -> createHighContrastTheme
                 ELSE theme
         IN Returned([this EXCEPT !.colorTheme = colorTheme,
                                  !.viewGenerator.colorTheme = colorTheme])

\* The mutant of setLayoutConfiguration: the view generator keeps its engine
setLayoutConfiguration_ExporterOnly(this, config) ==
    [this EXCEPT !.layoutEngine = LayoutEngine(config)]

\* XmlExporter.setLayoutConfiguration
setLayoutConfiguration(this, config) ==
    [this EXCEPT !.layoutEngine = LayoutEngine(config),
                 !.viewGenerator.layoutEngine = LayoutEngine(config)]

\* if (options.colorTheme): a theme, or a name that is not the empty string
HasColorTheme(options) ==
    /\ IsSome(options.colorTheme)
    /\ ~(IsThemeName(Val(options.colorTheme)) /\ Val(options.colorTheme).named = "")

\* The mutant of configureVisualization: the layout of the options is not
\* applied
configureVisualization_ThemeOnly(this, options) ==
    IF HasColorTheme(options)
    THEN setColorTheme(this, Val(options.colorTheme))
    ELSE Returned(this)

\* XmlExporter.configureVisualization: the exporter after the call, or the
\* error of setColorTheme
configureVisualization(this, options) ==
    LET themed == IF HasColorTheme(options)
                  THEN setColorTheme(this, Val(options.colorTheme))
                  ELSE Returned(this)
    IN IF ~themed.ok THEN themed
       ELSE IF IsSome(options.layoutConfiguration)
            THEN Returned(setLayoutConfiguration(themed.value,
                                                 Val(options.layoutConfiguration)))
            ELSE themed

\* XmlExporter.buildModelOptions
buildModelOptions(options) ==
    LET viewName == IF IsSome(options.viewOptions)
                    THEN Val(options.viewOptions).viewName ELSE None
    IN [modelId |-> options.modelId,
        modelName |-> options.modelName,
        modelPurpose |-> options.modelPurpose,
        includeViews |-> options.includeViews # Some(FALSE),
        viewName |-> viewName,
        viewDocumentation |-> IF IsSome(viewName) /\ Val(viewName) # <<>>
                              THEN Some(<<"Generated view: ">> \o Val(viewName))
                              ELSE None]

\* array.join(', ')
RECURSIVE Join(_)
Join(items) ==
    IF items = <<>> THEN <<>>
    ELSE IF Len(items) = 1 THEN items[1]
    ELSE items[1] \o <<", ">> \o Join(Tail(items))

\* RelationshipXmlGenerator.findOrphanedRelationships
findOrphanedRelationships(relationships, elements) ==
    LET elementIds == {elements[i].id : i \in DOMAIN elements}
        IsOrphaned(relationship) ==
            relationship.source \notin elementIds \/ relationship.target \notin elementIds
        orphaned == SelectSeq(relationships, IsOrphaned)
    IN [i \in DOMAIN orphaned |-> orphaned[i].id]

\* The loops of validateModelInputs that collect duplicateIds: the id of each
\* item whose id an earlier item has
DuplicatesOf(items) ==
    LET Repeats(i) == \E j \in 1..(i - 1) : items[j].id = items[i].id
        at == {i \in DOMAIN items : Repeats(i)}
        Nth(k) == CHOOSE i \in at : Cardinality({j \in at : j < i}) = k - 1
    IN [k \in 1..Cardinality(at) |-> items[Nth(k)].id]

\* The characters String.prototype.trim removes: the white space and the
\* line terminators of ECMAScript.  A character that has no escape in a
\* string of this module is a symbol written by its code point
Whitespace ==
    {" ", "\t", "\n", "\r", "\f", "U+000B", "U+00A0", "U+1680", "U+2000",
     "U+2001", "U+2002", "U+2003", "U+2004", "U+2005", "U+2006", "U+2007",
     "U+2008", "U+2009", "U+200A", "U+2028", "U+2029", "U+202F", "U+205F",
     "U+3000", "U+FEFF"}

\* !e.name || e.name.trim() === ''
IsUnnamed(element) == \A i \in DOMAIN element.name : element.name[i] \in Whitespace

\* XmlExporter.validateModelInputs
validateModelInputs(elements, relationships, strict) ==
    LET orphanedRelationships == findOrphanedRelationships(relationships, elements)
        duplicateIds == DuplicatesOf(elements)
        duplicateRelIds == DuplicatesOf(relationships)
        unnamedElements == SelectSeq(elements, IsUnnamed)
        empty == IF Len(elements) = 0
                 THEN <<<<"Model contains no elements">>>> ELSE <<>>
        orphaned == IF Len(orphanedRelationships) > 0
                    THEN <<<<"Found ", ToString(Len(orphanedRelationships)),
                             " orphaned relationships: ">>
                           \o Join(orphanedRelationships)>>
                    ELSE <<>>
        dupElements == IF Len(duplicateIds) > 0
                       THEN <<<<"Duplicate element IDs found: ">> \o Join(duplicateIds)>>
                       ELSE <<>>
        dupRelationships ==
            IF Len(duplicateRelIds) > 0
            THEN <<<<"Duplicate relationship IDs found: ">> \o Join(duplicateRelIds)>>
            ELSE <<>>
        unnamed == IF Len(unnamedElements) > 0
                   THEN <<<<"Found ", ToString(Len(unnamedElements)),
                           " elements without names">>>>
                   ELSE <<>>
    IN [warnings |-> (IF strict THEN <<>> ELSE empty \o orphaned) \o unnamed,
        errors |-> (IF strict THEN empty \o orphaned ELSE <<>>)
                   \o dupElements \o dupRelationships]

\* The mutant of StrictAbort: the export goes on whatever was found
StrictAbort_Never(result, options) == FALSE

\* The condition on which step 1 of exportModel throws
StrictAbort(result, options) ==
    Len(result.errors) > 0 /\ options.strictValidation

\* ElementXmlGenerator.getElementStatistics
getElementStatistics(elements) ==
    [totalElements |-> Len(elements),
     elementsByLayer |-> CountBy(LayerOf(elements)),
     elementsByType |-> CountBy(TypeOf(elements))]

\* RelationshipXmlGenerator.getRelationshipStatistics
getRelationshipStatistics(relationships) ==
    [totalRelationships |-> Len(relationships),
     relationshipsByType |-> CountBy(TypeOf(relationships)),
     uniqueElements |-> {relationships[i].source : i \in DOMAIN relationships}
                        \cup {relationships[i].target : i \in DOMAIN relationships}]

\* XmlExporter.collectStatistics
collectStatistics(this, elements, relationships, options) ==
    LET elementStats == getElementStatistics(elements)
        relationshipStats == getRelationshipStatistics(relationships)
    IN [elements |-> [total |-> elementStats.totalElements,
                      byLayer |-> elementStats.elementsByLayer,
                      byType |-> elementStats.elementsByType],
        relationships |-> [total |-> relationshipStats.totalRelationships,
                           byType |-> relationshipStats.relationshipsByType,
                           uniqueElements |-> Cardinality(relationshipStats.uniqueElements)],
        views |-> IF options.includeViews = Some(TRUE)
                  THEN Some(generateViewStatistics(this.viewGenerator, elements,
                                                   relationships))
                  ELSE None]

\* The catch block of exportModel: the message is pushed to result.errors
\* and the error that was caught is thrown again
Catch(result, message) ==
    [result |-> [result EXCEPT !.errors = Append(@, <<"Export failed: ">> \o message)],
     thrown |-> message]

-----------------------------------------------------------------------------
(* xml-export/xml-validator.ts.  The text of a document is a sequence of   *)
(* symbols in which "<" and ">" are characters of their own.  What the     *)
(* DOMParser of @xmldom/xmldom makes of a text is given with the text: a   *)
(* document is the sequence of its element nodes in document order, the    *)
(* first one being the documentElement; a node is its tagName and its      *)
(* attributes, whose values are sequences of symbols.  Of a                *)
(* ValidationError the type, the message and the element are kept, of a    *)
(* ValidationWarning the type and the message.                             *)

ARCHIMATE_NAMESPACE == "http://www.opengroup.org/xsd/archimate/3.0/"
XSI_NAMESPACE == "http://www.w3.org/2001/XMLSchema-instance"
SCHEMA_LOCATION == "http://www.opengroup.org/xsd/archimate/3.1/archimate3_Diagram.xsd"

\* Object.values(RelationshipType)
RelationshipTypes == {typeOrder[i] : i \in DOMAIN typeOrder}

\* A ValidationResult with nothing in it
NoFindings == [errors |-> <<>>, warnings |-> <<>>]

XmlError(type, message, element) ==
    [type |-> type, message |-> message, element |-> element]
XmlWarning(type, message) == [type |-> type, message |-> message]

\* element.getAttribute(name): None when the element has no such attribute
getAttribute(element, name) ==
    IF name \in DOMAIN element.attributes THEN Some(element.attributes[name]) ELSE None

\* The truth value JavaScript gives an attribute value: absent and '' are false
Truthy(value) == IsSome(value) /\ Val(value) # <<>>

\* element.getAttribute('identifier') || element.getAttribute('id')
IdentifierOrId(element) ==
    IF Truthy(getAttribute(element, "identifier")) THEN getAttribute(element, "identifier")
    ELSE getAttribute(element, "id")

\* The numbers 1..n in order
Indices(n) == [i \in 1..n |-> i]

\* XmlValidator.getElementsByAttribute: the nodes, in document order, whose
\* attribute is there and not empty
getElementsByAttribute(doc, attributeName) ==
    SelectSeq(doc, LAMBDA element : Truthy(getAttribute(element, attributeName)))

\* XmlValidator.getElementsByTagName
getElementsByTagName(doc, tagName) ==
    SelectSeq(doc, LAMBDA element : element.tagName = tagName)

\* xml.trim() is empty
IsBlank(xml) == \A i \in DOMAIN xml : xml[i] \in Whitespace

\* xml.trim().startsWith('<?xml')
RECURSIVE StartsWithDeclaration(_)
StartsWithDeclaration(xml) ==
    IF xml = <<>> THEN FALSE
    ELSE IF Head(xml) \in Whitespace THEN StartsWithDeclaration(Tail(xml))
    ELSE Len(xml) >= 2 /\ xml[1] = "<" /\ xml[2] = "?xml"

\* (xml.match(/c/g) || []).length
CountOf(xml, c) == Cardinality({i \in DOMAIN xml : xml[i] = c})

\* XmlValidator.validateWellFormedness
validateWellFormedness(xml) ==
    IF IsBlank(xml)
    THEN [errors |-> <<XmlError("structure", <<"Empty XML document">>, None)>>,
          warnings |-> <<>>]
    ELSE [errors |-> IF CountOf(xml, "<") # CountOf(xml, ">")
                     THEN <<XmlError("structure", <<"Mismatched XML tags">>, None)>>
                     ELSE <<>>,
          warnings |-> IF ~StartsWithDeclaration(xml)
                       THEN <<XmlWarning("best-practice", <<"Missing XML declaration">>)>>
                       ELSE <<>>]

\* XmlValidator.validateStructure, on what parseXml(xml) gives
validateStructure(parsed) ==
    IF ~IsSome(parsed)
    THEN [errors |-> <<XmlError("structure", <<"Invalid XML structure">>, None)>>,
          warnings |-> <<>>]
    ELSE LET doc == Val(parsed) IN
         IF doc = <<>>
         THEN [errors |-> <<XmlError("structure", <<"Invalid root element">>, None)>>,
               warnings |-> <<>>]
         ELSE [errors |->
                   (IF doc[1].tagName # "model"
                    THEN <<XmlError("structure", <<"Invalid root element">>, None)>>
                    ELSE <<>>)
                   \o (IF ~Truthy(getAttribute(doc[1], "identifier"))
                       THEN <<XmlError("structure",
                                       <<"Missing required attribute: identifier">>,
                                       Some(<<"model">>))>>
                       ELSE <<>>),
               warnings |->
                   IF getElementsByTagName(Tail(doc), "name") = <<>>
                   THEN <<XmlWarning("best-practice",
                                     <<"Model should have a name element">>)>>
                   ELSE <<>>]

\* XmlValidator.validateNamespace
validateNamespace(doc) ==
    IF doc = <<>> THEN NoFindings
    ELSE [errors |->
              IF getAttribute(doc[1], "xmlns") # Some(<<ARCHIMATE_NAMESPACE>>)
              THEN <<XmlError("namespace", <<"Invalid ArchiMate namespace">>,
                              Some(<<"model">>))>>
              ELSE <<>>,
          warnings |->
              (IF getAttribute(doc[1], "xmlns:xsi") # Some(<<XSI_NAMESPACE>>)
               THEN <<XmlWarning("compatibility",
                                 <<"Missing or incorrect XSI namespace">>)>>
               ELSE <<>>)
              \o (IF \/ ~Truthy(getAttribute(doc[1], "xsi:schemaLocation"))
                     \/ ~Includes(Val(getAttribute(doc[1], "xsi:schemaLocation")),
                                  SCHEMA_LOCATION)
                  THEN <<XmlWarning("compatibility",
                                    <<"Missing or incorrect schema location">>)>>
                  ELSE <<>>)]

\* elementsWithIds / allElements: the nodes with an identifier, then the
\* nodes with an id
ElementsWithIds(doc) ==
    getElementsByAttribute(doc, "identifier") \o getElementsByAttribute(doc, "id")

\* The set `duplicates` of validateElementUniqueness in its order: every id
\* at the place where it is met for the second time
Duplicates(ids) ==
    LET second == SelectSeq(Indices(Len(ids)), LAMBDA k :
                      Cardinality({j \in 1..(k - 1) : ids[j] = ids[k]}) = 1)
    IN [n \in DOMAIN second |-> ids[second[n]]]

\* XmlValidator.validateElementUniqueness
validateElementUniqueness(doc) ==
    LET elementsWithIds == ElementsWithIds(doc)
        ids == [k \in DOMAIN elementsWithIds |-> Val(IdentifierOrId(elementsWithIds[k]))]
        duplicates == Duplicates(ids)
    IN [errors |-> [n \in DOMAIN duplicates |->
                       XmlError("uniqueness",
                                <<"Duplicate element identifier: ">> \o duplicates[n],
                                None)],
        warnings |-> <<>>]

\* isRelationshipElement of validateRelationshipReferences
isRelationshipElement(element) ==
    /\ Truthy(getAttribute(element, "xsi:type"))
    /\ Includes(Val(getAttribute(element, "xsi:type")), "Relationship")

\* relationshipId || 'unnamed relationship'
IdentifierOr(element, default) ==
    IF Truthy(IdentifierOrId(element)) THEN IdentifierOrId(element) ELSE Some(<<default>>)

\* The errors of one relationship node: its source, then its target
ReferenceErrorsOf(relationship, elementIds) ==
    LET source == getAttribute(relationship, "source")
        target == getAttribute(relationship, "target")
    IN (IF Truthy(source) /\ Val(source) \notin elementIds
        THEN <<XmlError("reference",
                        <<"Relationship references unknown source element: ">>
                        \o Val(source),
                        IdentifierOr(relationship, "unnamed relationship"))>>
        ELSE <<>>)
       \o (IF Truthy(target) /\ Val(target) \notin elementIds
           THEN <<XmlError("reference",
                           <<"Relationship references unknown target element: ">>
                           \o Val(target),
                           IdentifierOr(relationship, "unnamed relationship"))>>
           ELSE <<>>)

\* The loop over the relationship nodes
RECURSIVE ReferenceErrors(_, _)
ReferenceErrors(relationships, elementIds) ==
    IF relationships = <<>> THEN <<>>
    ELSE ReferenceErrorsOf(Head(relationships), elementIds)
         \o ReferenceErrors(Tail(relationships), elementIds)

\* elementIds of validateRelationshipReferences: the identifiers of the nodes
\* that are not relationships
NonRelationshipIds(doc) ==
    {Val(IdentifierOrId(ElementsWithIds(doc)[k])) :
        k \in {k \in DOMAIN ElementsWithIds(doc) :
                 /\ ElementsWithIds(doc)[k].tagName # "relationship"
                 /\ ~isRelationshipElement(ElementsWithIds(doc)[k])}}

\* The relationship nodes: the 'relationship' tags, then the 'element' tags
\* with a relationship type
RelationshipNodes(doc) ==
    getElementsByTagName(doc, "relationship")
    \o SelectSeq(getElementsByTagName(doc, "element"), isRelationshipElement)

\* XmlValidator.validateRelationshipReferences
XmlValidator_validateRelationshipReferences(doc) ==
    [errors |-> ReferenceErrors(RelationshipNodes(doc), NonRelationshipIds(doc)),
     warnings |-> <<>>]

\* normalizeTypeName: type.substring(type.lastIndexOf(':') + 1), the type
\* itself when it has no colon.  The colon is a symbol of its own, so a
\* prefix is whatever stands before the last one
normalizeTypeName(type) ==
    LET colons == {i \in DOMAIN type : type[i] = ":"} IN
    IF colons = {} THEN type
    ELSE SubSeq(type, (CHOOSE i \in colons : \A j \in colons : j <= i) + 1, Len(type))

\* normalizedType.replace(/Relationship$/, '')
WithoutRelationshipSuffix(type) ==
    IF type # <<>> /\ type[Len(type)] = "Relationship"
    THEN SubSeq(type, 1, Len(type) - 1) ELSE type

\* type && normalizeTypeName(type).endsWith('Relationship')
HasRelationshipType(element) ==
    /\ Truthy(getAttribute(element, "xsi:type"))
    /\ LET type == normalizeTypeName(Val(getAttribute(element, "xsi:type")))
       IN type # <<>> /\ type[Len(type)] = "Relationship"

\* The error of a regular element, if its type is not an ElementType
ElementTypeErrors(element) ==
    LET type == getAttribute(element, "xsi:type") IN
    IF Truthy(type)
       /\ ~\E t \in ElementTypes : normalizeTypeName(Val(type)) = <<t>>
    THEN <<XmlError("schema", <<"Invalid element type: ">> \o Val(type),
                    IdentifierOr(element, "unnamed element"))>>
    ELSE <<>>

\* The error of a relationship, if its type is not a RelationshipType with
\* or without the suffix
RelationshipTypeErrors(relationship) ==
    LET type == getAttribute(relationship, "xsi:type") IN
    IF Truthy(type)
       /\ ~\E t \in RelationshipTypes :
              \/ normalizeTypeName(Val(type)) = <<t>>
              \/ WithoutRelationshipSuffix(normalizeTypeName(Val(type))) = <<t>>
    THEN <<XmlError("schema", <<"Invalid relationship type: ">> \o Val(type),
                    IdentifierOr(relationship, "unnamed relationship"))>>
    ELSE <<>>

RECURSIVE TypeErrors(_, _)
TypeErrors(regularElements, relationships) ==
    IF regularElements # <<>>
    THEN ElementTypeErrors(Head(regularElements))
         \o TypeErrors(Tail(regularElements), relationships)
    ELSE IF relationships # <<>>
         THEN RelationshipTypeErrors(Head(relationships))
              \o TypeErrors(regularElements, Tail(relationships))
         ELSE <<>>

\* XmlValidator.validateArchiMateTypes
validateArchiMateTypes(doc) ==
    LET allElements == getElementsByTagName(doc, "element")
        regularElements == SelectSeq(allElements, LAMBDA e : ~HasRelationshipType(e))
        relationshipElements == SelectSeq(allElements, HasRelationshipType)
    IN [errors |-> TypeErrors(regularElements,
                              getElementsByTagName(doc, "relationship")
                              \o relationshipElements),
        warnings |-> <<>>]

\* validateModel, the loop over the elements: an error for an element whose
\* id an earlier element has
RECURSIVE DuplicateElementErrors(_, _)
DuplicateElementErrors(elements, elementIds) ==
    IF elements = <<>> THEN <<>>
    ELSE IF Head(elements).id \in elementIds
         THEN <<XmlError("uniqueness",
                         <<"Duplicate element ID: ">> \o Head(elements).id,
                         Some(Head(elements).name))>>
              \o DuplicateElementErrors(Tail(elements), elementIds)
         ELSE DuplicateElementErrors(Tail(elements), elementIds \cup {Head(elements).id})

\* validateModel, the loop over the relationships: an error for a
\* relationship whose id an earlier relationship has
RECURSIVE DuplicateRelationshipErrors(_, _)
DuplicateRelationshipErrors(relationships, relationshipIds) ==
    IF relationships = <<>> THEN <<>>
    ELSE IF Head(relationships).id \in relationshipIds
         THEN <<XmlError("uniqueness",
                         <<"Duplicate relationship ID: ">> \o Head(relationships).id,
                         None)>>
              \o DuplicateRelationshipErrors(Tail(relationships), relationshipIds)
         ELSE DuplicateRelationshipErrors(Tail(relationships),
                                          relationshipIds \cup {Head(relationships).id})

\* The mutant of ModelReferenceErrorsOf: the target is not looked up
ModelReferenceErrorsOf_SourceOnly(relationship, elementIds) ==
    IF relationship.source \notin elementIds
    THEN <<XmlError("reference",
                    <<"Relationship references unknown source element: ">>
                    \o relationship.source,
                    Some(relationship.id))>>
    ELSE <<>>

\* validateModel, the reference errors of one relationship
ModelReferenceErrorsOf(relationship, elementIds) ==
    (IF relationship.source \notin elementIds
     THEN <<XmlError("reference",
                     <<"Relationship references unknown source element: ">>
                     \o relationship.source,
                     Some(relationship.id))>>
     ELSE <<>>)
    \o (IF relationship.target \notin elementIds
        THEN <<XmlError("reference",
                        <<"Relationship references unknown target element: ">>
                        \o relationship.target,
                        Some(relationship.id))>>
        ELSE <<>>)

RECURSIVE ModelReferenceErrors(_, _)
ModelReferenceErrors(relationships, elementIds) ==
    IF relationships = <<>> THEN <<>>
    ELSE ModelReferenceErrorsOf(Head(relationships), elementIds)
         \o ModelReferenceErrors(Tail(relationships), elementIds)

\* XmlValidator.validateModel
validateModel(elements, relationships) ==
    LET errors ==
            DuplicateElementErrors(elements, {})
            \o DuplicateRelationshipErrors(relationships, {})
            \o ModelReferenceErrors(relationships,
                                    {elements[k].id : k \in DOMAIN elements})
    IN [isValid |-> (errors = <<>>), errors |-> errors, warnings |-> <<>>]

\* The mutant of PushAll: the warnings of a check are dropped
PushAll_ErrorsOnly(result, findings) ==
    [result EXCEPT !.errors = @ \o findings.errors]

\* result.errors.push(...r.errors); result.warnings.push(...r.warnings)
PushAll(result, findings) ==
    [result EXCEPT !.errors = @ \o findings.errors,
                   !.warnings = @ \o findings.warnings]

-----------------------------------------------------------------------------
(* The validator's specification: the arguments are drawn in the initial   *)
(* state, the one action is the call.                                      *)

MaxValElements == 2
MaxValRelationships == 2

ValIds == {<<"a">>, <<"b">>}
ValEndpoints == {<<"a">>, <<"b">>, <<"z">>}
ValRelTypes == {"Assignment", "Composition"}

ValElementUniverse ==
    {BusinessActor(id, NameCustomer) : id \in ValIds}
    \cup {BusinessRole(id, NameCustomer) : id \in ValIds}

RelIdAt == <<<<"r1">>, <<"r2">>, <<"r3">>, <<"r4">>>>

\* Relationship lists whose ids are distinct: the i-th relationship is r<i>
ValRelationshipLists ==
    {[i \in 1..Len(shape) |->
        Relationship(RelIdAt[i], shape[i][1], shape[i][2], shape[i][3])] :
     shape \in SeqsUpTo(ValEndpoints \X ValEndpoints \X ValRelTypes,
                        MaxValRelationships)}

\* The components a specification does not exercise stay unused
ValIdle ==
    /\ val_pc = "unused"
    /\ val_elements = <<>>
    /\ val_relationships = <<>>
    /\ val_errors = <<>>

LayIdle ==
    /\ lay_pc = "unused"
    /\ lay_config = DefaultLayoutConfiguration
    /\ lay_elements = <<>>
    /\ lay_relationships = <<>>
    /\ lay_result = None
    /\ lay_calls = 0
    /\ lay_kept = None

EscIdle ==
    /\ esc_pc = "unused"
    /\ esc_name = <<>>
    /\ esc_element = <<>>
    /\ esc_relationship = <<>>

ViewIdle ==
    /\ view_pc = "unused"
    /\ view_this = ViewXmlGenerator(None)
    /\ view_elements = <<>>
    /\ view_relationships = <<>>
    /\ view_result = None

\* The result object exportModel starts with; xml is <<>> for ''
EmptyResult == [xml |-> None, warnings |-> <<>>, errors |-> <<>>, statistics |-> None]

ExpIdle ==
    /\ exp_pc = "unused"
    /\ exp_this = None
    /\ exp_via = "caller"
    /\ exp_elements = <<>>
    /\ exp_relationships = <<>>
    /\ exp_options = NoExportOptions
    /\ exp_atCall = None
    /\ exp_result = EmptyResult
    /\ exp_trace = <<>>
    /\ exp_outcome = None
    /\ exp_received = None
    /\ exp_calls = 0
    /\ exp_kept = None

\* The bindings of __dirname: none, or the directory of the build
DirnameBindings == {None, Some(<<"dist", "/", "xml-export">>)}

\* The caller's createXmlExporter() or new XmlExporter() threw, in its own
\* statement or inside exportToXml: there is no exporter to call, and the
\* error is what the caller received
NoExporter(via, thrown) ==
    /\ exp_pc = "unconstructed"
    /\ exp_this = None
    /\ exp_via = via
    /\ exp_elements = <<>>
    /\ exp_relationships = <<>>
    /\ exp_options = NoExportOptions
    /\ exp_atCall = None
    /\ exp_result = EmptyResult
    /\ exp_trace = <<>>
    /\ exp_outcome = None
    /\ exp_received = Some(thrown)
    /\ exp_calls = 0
    /\ exp_kept = None

GenIdle ==
    /\ gen_pc = "unused"
    /\ gen_relationships = <<>>
    /\ gen_options = NoRelationshipOptions
    /\ gen_elements = None
    /\ gen_result = None

ThmIdle ==
    /\ thm_entry = "none"
    /\ thm_name = ""
    /\ thm_outcome = None

FacIdle ==
    /\ fac_pc = "unused"
    /\ fac_type = ""
    /\ fac_id = <<>>
    /\ fac_name = <<>>
    /\ fac_result = None

XmlIdle ==
    /\ xml_pc = "unused"
    /\ xml_xml = <<>>
    /\ xml_parsed = None
    /\ xml_result = [isValid |-> TRUE, errors |-> <<>>, warnings |-> <<>>]
    /\ xml_trace = <<>>

MdlIdle ==
    /\ mdl_pc = "unused"
    /\ mdl_elements = <<>>
    /\ mdl_relationships = <<>>
    /\ mdl_result = None

FrgIdle ==
    /\ frg_pc = "unused"
    /\ frg_element = <<>>
    /\ frg_relationship = <<>>
    /\ frg_includeNames = FALSE
    /\ frg_elementXml = <<>>
    /\ frg_relationshipXml = <<>>

DimIdle ==
    /\ dim_pc = "unused"
    /\ dim_config = <<>>
    /\ dim_element = <<>>
    /\ dim_result = None

DocIdle ==
    /\ doc_pc = "unused"
    /\ doc_element = <<>>
    /\ doc_options = <<>>
    /\ doc_result = None

ElsIdle ==
    /\ els_pc = "unused"
    /\ els_elements = <<>>
    /\ els_options = <<>>
    /\ els_result = None

EnvIdle ==
    __dirname = None

ValInit ==
    /\ val_pc = "ready"
    /\ val_elements \in SeqsUpTo(ValElementUniverse, MaxValElements)
    /\ val_relationships \in ValRelationshipLists
    /\ val_errors = <<>>
    /\ LayIdle /\ EscIdle /\ ViewIdle /\ ExpIdle /\ GenIdle /\ ThmIdle /\ FacIdle /\ XmlIdle /\ MdlIdle /\ FrgIdle /\ DimIdle /\ DocIdle /\ ElsIdle /\ EnvIdle

Validate ==
    /\ val_pc = "ready"
    /\ val_errors' = validate(val_elements, val_relationships)
    /\ val_pc' = "done"
    /\ UNCHANGED <<val_elements, val_relationships, layVars, escVars, viewVars, expVars, genVars, thmVars, facVars, xmlVars, mdlVars, frgVars, dimVars, docVars, elsVars, envVars>>

SpecValidator == ValInit /\ [][Validate]_vars

-----------------------------------------------------------------------------
(* The layout engine's specifications.  SpecLayout: an engine is constructed *)
(* with one of the configurations, the arguments of one generateLayout call  *)
(* are drawn in the initial state, and the action is the call.  SpecLayout-  *)
(* Calls: a caller makes several calls on one engine.                        *)

MaxLayoutElements == 3
MaxCallElements == 2
MaxLayoutCalls == 3

\* The configurations a caller passes to the constructor: none, a compact one,
\* and one with a layer order of its own
CompactPartial ==
    [EmptyPartial EXCEPT !.viewportPadding = Some(40), !.elementSpacing = Some(50),
                         !.layerVerticalSpacing = Some(80)]
TopDownPartial ==
    [EmptyPartial EXCEPT
        !.layerOrder = Some(<<Layer_TECHNOLOGY, Layer_APPLICATION, Layer_BUSINESS>>)]

LayoutPartials == {EmptyPartial, CompactPartial, TopDownPartial}

LayoutIds == {<<"a">>, <<"b">>}
LayoutNames == {NameCustomer, NameOrderProcessing}

LayoutElementUniverse ==
    UNION {{Goal(id, n), BusinessActor(id, n), BusinessProcess(id, n),
            ApplicationComponent(id, n)} : <<id, n>> \in LayoutIds \X LayoutNames}

LayoutRelationshipLists ==
    {<<>>, <<Relationship(<<"r1">>, <<"a">>, <<"b">>, "Triggering")>>}

CallElementUniverse ==
    {Goal(<<"a">>, NameCustomer), Goal(<<"b">>, NameOrderProcessing),
     BusinessActor(<<"b">>, NameCustomer)}

LayoutInit ==
    /\ lay_pc = "ready"
    /\ lay_config \in {LayoutEngine(p) : p \in LayoutPartials}
    /\ lay_elements \in SeqsUpTo(LayoutElementUniverse, MaxLayoutElements)
    /\ lay_relationships \in LayoutRelationshipLists
    /\ lay_result = None
    /\ lay_calls = 0
    /\ lay_kept = None
    /\ ValIdle /\ EscIdle /\ ViewIdle /\ ExpIdle /\ GenIdle /\ ThmIdle /\ FacIdle /\ XmlIdle /\ MdlIdle /\ FrgIdle /\ DimIdle /\ DocIdle /\ ElsIdle /\ EnvIdle

CallsInit ==
    /\ lay_pc = "ready"
    /\ lay_config \in {LayoutEngine(p) : p \in LayoutPartials}
    /\ lay_elements \in SeqsUpTo(CallElementUniverse, MaxCallElements)
    /\ lay_relationships \in LayoutRelationshipLists
    /\ lay_result = None
    /\ lay_calls = 0
    /\ lay_kept = None
    /\ ValIdle /\ EscIdle /\ ViewIdle /\ ExpIdle /\ GenIdle /\ ThmIdle /\ FacIdle /\ XmlIdle /\ MdlIdle /\ FrgIdle /\ DimIdle /\ DocIdle /\ ElsIdle /\ EnvIdle

\* engine.generateLayout(lay_elements, lay_relationships)
GenerateLayout ==
    /\ lay_pc = "ready"
    /\ lay_result' = Some(generateLayout(lay_config, lay_elements, lay_relationships))
    /\ lay_config' = configAfterGenerateLayout(lay_config, lay_elements)
    /\ lay_calls' = lay_calls + 1
    /\ lay_pc' = "done"
    /\ UNCHANGED <<lay_elements, lay_relationships, lay_kept, valVars, escVars, viewVars, expVars, genVars, thmVars, facVars, xmlVars, mdlVars, frgVars, dimVars, docVars, elsVars, envVars>>

\* The caller passes the arguments of its next call on the same engine; the
\* call just made may be the one that is kept for comparison
NextCall ==
    /\ lay_pc = "done"
    /\ lay_calls < MaxLayoutCalls
    /\ \E elements \in SeqsUpTo(CallElementUniverse, MaxCallElements),
          relationships \in LayoutRelationshipLists,
          keep \in BOOLEAN :
          /\ lay_elements' = elements
          /\ lay_relationships' = relationships
          /\ lay_kept' = IF keep
                         THEN Some([elements |-> lay_elements,
                                    relationships |-> lay_relationships,
                                    result |-> Val(lay_result)])
                         ELSE lay_kept
    /\ lay_pc' = "ready"
    /\ UNCHANGED <<lay_config, lay_result, lay_calls, valVars, escVars, viewVars, expVars, genVars, thmVars, facVars, xmlVars, mdlVars, frgVars, dimVars, docVars, elsVars, envVars>>

\* engine.generateRelationshipAwareLayout(lay_elements, lay_relationships),
\* called after generateLayout with the same arguments; the result of
\* generateLayout is kept for comparison
GenerateRelationshipAwareLayout ==
    /\ lay_pc = "done"
    /\ lay_calls = 1
    /\ lay_kept' = Some([elements |-> lay_elements,
                         relationships |-> lay_relationships,
                         result |-> Val(lay_result)])
    /\ lay_result' = Some(generateRelationshipAwareLayout(lay_config, lay_elements,
                                                          lay_relationships))
    /\ lay_config' = configAfterGenerateLayout(lay_config, lay_elements)
    /\ lay_calls' = lay_calls + 1
    /\ lay_pc' = "aware"
    /\ UNCHANGED <<lay_elements, lay_relationships, valVars, escVars, viewVars, expVars, genVars, thmVars, facVars, xmlVars, mdlVars, frgVars, dimVars, docVars, elsVars, envVars>>

SpecLayout == LayoutInit /\ [][GenerateLayout]_vars

SpecLayoutCalls == CallsInit /\ [][GenerateLayout \/ NextCall]_vars

SpecLayoutAware ==
    LayoutInit /\ [][GenerateLayout \/ GenerateRelationshipAwareLayout]_vars

-----------------------------------------------------------------------------
(* The generators' specification: the name of an element is drawn in the   *)
(* initial state; generateElement renders the element, generateRelationship *)
(* renders a relationship whose generated name holds the element's name.   *)

MaxEscapeLen == 4

\* The five characters that are escaped, three characters that spell an
\* entity when they follow an ampersand, and an ordinary letter
EscapeAlphabet == {"&", "<", ">", "\"", "'", "l", "t", ";", "A"}

NameAllSpecials ==
    <<"A", " ", "&", " ", "B", " ", "<", "C", ">", " ",
      "\"", "D", "\"", " ", "'", "E", "'">>

EscElement == Goal(<<"a">>, esc_name)
EscOther == Goal(<<"b">>, NameCustomer)
EscRelationship == Relationship(<<"r1">>, <<"a">>, <<"b">>, "Triggering")

EscInit ==
    /\ __dirname \in DirnameBindings
    /\ esc_pc = "ready"
    /\ esc_name \in SeqsUpTo(EscapeAlphabet, MaxEscapeLen) \cup {NameAllSpecials}
    /\ esc_element = <<>>
    /\ esc_relationship = <<>>
    /\ ValIdle /\ LayIdle /\ ViewIdle /\ ExpIdle /\ GenIdle /\ ThmIdle /\ FacIdle /\ XmlIdle /\ MdlIdle /\ FrgIdle /\ DimIdle /\ DocIdle /\ ElsIdle

\* new ElementXmlGenerator().generateElement(element)
GenerateElement ==
    /\ esc_pc = "ready"
    /\ esc_element' = generateElement(EscElement, NoElementOptions)
    /\ esc_pc' = "element"
    /\ UNCHANGED <<esc_name, esc_relationship, valVars, layVars, viewVars, expVars, genVars, thmVars, facVars, xmlVars, mdlVars, frgVars, dimVars, docVars, elsVars, envVars>>

\* new RelationshipXmlGenerator().generateRelationship(relationship,
\* {includeNames: true}, elements); no call when the constructor throws
GenerateRelationship ==
    /\ esc_pc = "element"
    /\ IF RelationshipXmlGenerator.ok
       THEN /\ esc_relationship' =
                   generateRelationship(EscRelationship,
                       [NoRelationshipOptions EXCEPT !.includeNames = TRUE],
                       Some(<<EscElement, EscOther>>)).value
            /\ esc_pc' = "done"
       ELSE /\ esc_pc' = "unconstructed"
            /\ UNCHANGED esc_relationship
    /\ UNCHANGED <<esc_name, esc_element, valVars, layVars, viewVars, expVars, genVars, thmVars, facVars, xmlVars, mdlVars, frgVars, dimVars, docVars, elsVars, envVars>>

SpecEscape == EscInit /\ [][GenerateElement \/ GenerateRelationship]_vars

-----------------------------------------------------------------------------
(* The view generator's specification: a generator is constructed, its     *)
(* owner may give it another engine or theme, and generateViewXml is       *)
(* called with the arguments drawn in the initial state.                   *)

MaxViewElements == 2

ViewElementUniverse ==
    {BusinessActor(<<"a">>, NameCustomer), BusinessProcess(<<"b">>, NameOrderProcessing),
     BusinessProcess(<<"a">>, NameCustomer), Goal(<<"b">>, NameCustomer)}

ViewRelationshipLists ==
    {<<>>,
     <<Relationship(<<"r1">>, <<"a">>, <<"b">>, "Triggering")>>,
     <<Relationship(<<"r1">>, <<"a">>, <<"z">>, "Triggering")>>,
     <<Relationship(<<"r1">>, <<"a">>, <<"b">>, "Triggering"),
       Relationship(<<"r2">>, <<"b">>, <<"a">>, "Serving")>>,
     <<Relationship(<<"r1">>, <<"a">>, <<"b">>, "Triggering"),
       Relationship(<<"r2">>, <<"a">>, <<"a">>, "Triggering")>>}

ViewInit ==
    /\ view_pc = "ready"
    /\ view_this \in {ViewXmlGenerator(None),
                      ViewXmlGenerator(Some(CallersTheme(createMonochromeTheme)))}
    /\ view_elements \in SeqsUpTo(ViewElementUniverse, MaxViewElements)
    /\ view_relationships \in ViewRelationshipLists
    /\ view_result = None
    /\ ValIdle /\ LayIdle /\ EscIdle /\ ExpIdle /\ GenIdle /\ ThmIdle /\ FacIdle /\ XmlIdle /\ MdlIdle /\ FrgIdle /\ DimIdle /\ DocIdle /\ ElsIdle /\ EnvIdle

\* generator.setLayoutEngine(new LayoutEngine(partial))
View_setLayoutEngine ==
    /\ view_pc = "ready"
    /\ \E partial \in LayoutPartials :
          view_this' = [view_this EXCEPT !.layoutEngine = LayoutEngine(partial)]
    /\ UNCHANGED <<view_pc, view_elements, view_relationships, view_result,
                   valVars, layVars, escVars, expVars, genVars, thmVars, facVars, xmlVars, mdlVars, frgVars, dimVars, docVars, elsVars, envVars>>

\* generator.setColorTheme(colorTheme), with a theme object of the caller
View_setColorTheme ==
    /\ view_pc = "ready"
    /\ \E colorTheme \in {CallersTheme(createArchiMateTheme),
                          CallersTheme(createMonochromeTheme),
                          CallersTheme(createHighContrastTheme)} :
          view_this' = [view_this EXCEPT !.colorTheme = colorTheme]
    /\ UNCHANGED <<view_pc, view_elements, view_relationships, view_result,
                   valVars, layVars, escVars, expVars, genVars, thmVars, facVars, xmlVars, mdlVars, frgVars, dimVars, docVars, elsVars, envVars>>

\* generator.generateViewXml(view_elements, view_relationships)
GenerateViewXml ==
    /\ view_pc = "ready"
    /\ view_result' = Some(generateViewXml(view_this, view_elements,
                                           view_relationships, NoViewOptions))
    /\ view_pc' = "done"
    /\ UNCHANGED <<view_this, view_elements, view_relationships,
                   valVars, layVars, escVars, expVars, genVars, thmVars, facVars, xmlVars, mdlVars, frgVars, dimVars, docVars, elsVars, envVars>>

\* The colours a caller gives to setElementColors and importTheme
ThemeColors == {ColorMapping("#123456", "#654321", "#111111")}
ThemeData == {[t \in {"BusinessActor"} |-> colors] : colors \in ThemeColors}

\* A theme object after a call of its holder: of setElementColors,
\* resetToDefaults or importTheme
ThemeAfterCall(theme, call) ==
    CASE call.method = "setElementColors" ->
             setElementColors(theme, call.elementType, call.colors)
      [] call.method = "resetToDefaults" -> resetToDefaults(theme)
      [] call.method = "importTheme" -> importTheme(theme, call.themeData)

\* What a component that keeps the theme held sees after a call on the
\* caller's theme object: the change when held is that object
SeenAfterCall(held, call) ==
    IF held.ref = 1 THEN ThemeAfterCall(held, call) ELSE held

\* There is an exporter: one was constructed
HasExporter == exp_pc \notin {"unused", "unconstructed"}

\* The caller calls a method of the theme object it gave to the view
\* generator or to the exporter, between their calls: the object is changed
\* in place, so whoever holds it has the changed mappings
Theme_Call(call) ==
    /\ view_pc \in {"unused", "ready"}
    /\ exp_pc \in {"unused", "idle", "returned", "thrown"}
    /\ \/ view_this.colorTheme.ref = 1
       \/ HasExporter /\ exp_this.colorTheme.ref = 1
       \/ HasExporter /\ exp_this.viewGenerator.colorTheme.ref = 1
    /\ view_this' = [view_this EXCEPT !.colorTheme = SeenAfterCall(@, call)]
    /\ exp_this' = IF HasExporter
                   THEN [exp_this EXCEPT
                            !.colorTheme = SeenAfterCall(@, call),
                            !.viewGenerator.colorTheme = SeenAfterCall(@, call)]
                   ELSE exp_this
    /\ thm_entry' = call.method
    /\ thm_name' = ""
    /\ thm_outcome' = None
    /\ UNCHANGED <<view_pc, view_elements, view_relationships, view_result,
                   exp_pc, exp_via, exp_elements, exp_relationships, exp_options,
                   exp_atCall, exp_result, exp_trace, exp_outcome, exp_received,
                   exp_calls, exp_kept,
                   valVars, layVars, escVars, genVars, facVars, xmlVars, mdlVars, frgVars, dimVars, docVars, elsVars, envVars>>

\* theme.setElementColors(elementType, colors)
Theme_setElementColors ==
    \E colors \in ThemeColors :
        Theme_Call([method |-> "setElementColors", elementType |-> "BusinessActor",
                    colors |-> colors])

\* theme.resetToDefaults()
Theme_resetToDefaults == Theme_Call([method |-> "resetToDefaults"])

\* theme.importTheme(themeData)
Theme_importTheme ==
    \E themeData \in ThemeData :
        Theme_Call([method |-> "importTheme", themeData |-> themeData])

SpecView ==
    ViewInit
    /\ [][View_setLayoutEngine \/ View_setColorTheme \/ Theme_setElementColors
          \/ Theme_resetToDefaults \/ Theme_importTheme \/ GenerateViewXml]_vars

-----------------------------------------------------------------------------
(* The exporter's specifications.  exportModel runs without suspending;    *)
(* its four steps are four actions that follow one another, and a step     *)
(* that throws runs the catch block.  SpecExport: one call, whose          *)
(* arguments are drawn in the initial state, on a new exporter or through  *)
(* exportToXml.  SpecExportCalls: several calls on exporters whose theme   *)
(* and layout the caller changes in between.                               *)

MaxExportElements == 3
MaxExportCalls == 2

\* A name of white space only: a space, a form feed and a no-break space
NameBlank == <<" ", "\f", "U+00A0">>

ExportElementUniverse ==
    {BusinessActor(<<"a">>, NameCustomer), BusinessActor(<<"b">>, NameBlank),
     BusinessProcess(<<"a">>, NameOrderProcessing)}

ExportRelationshipLists ==
    {<<>>,
     <<Relationship(<<"r1">>, <<"a">>, <<"b">>, "Triggering")>>,
     <<Relationship(<<"r1">>, <<"a">>, <<"z">>, "Triggering")>>,
     <<Relationship(<<"r1">>, <<"a">>, <<"a">>, "Triggering"),
       Relationship(<<"r1">>, <<"a">>, <<"a">>, "Serving")>>,
     <<Relationship(<<"r1">>, <<"a">>, <<"a">>, "Triggering"),
       Relationship(<<"r2">>, <<"z">>, <<"a">>, "Serving")>>}

\* The theme and the layout a caller asks for: none, both, or a theme that
\* does not exist
ExportStylings ==
    {<<None, None>>, <<Some(ThemeName("monochrome")), Some(CompactPartial)>>,
     <<Some(ThemeName("neon")), None>>}

ExportOptionsUniverse ==
    {[NoExportOptions EXCEPT !.validateModel = validation[1],
                             !.strictValidation = validation[2],
                             !.includeStatistics = includeStatistics,
                             !.includeViews = includeViews,
                             !.colorTheme = styling[1],
                             !.layoutConfiguration = styling[2]] :
        validation \in {<<FALSE, FALSE>>, <<TRUE, FALSE>>, <<TRUE, TRUE>>},
        includeStatistics \in BOOLEAN,
        includeViews \in {None, Some(TRUE), Some(FALSE)},
        styling \in ExportStylings}

ExportInit ==
    /\ __dirname \in DirnameBindings
    /\ IF createXmlExporter(None, None).ok
       THEN /\ exp_pc = "step1"
            /\ exp_via \in {"caller", "exportToXml"}
            /\ exp_this = createXmlExporter(None, None).value
            /\ exp_elements \in SeqsUpTo(ExportElementUniverse, MaxExportElements)
            /\ exp_relationships \in ExportRelationshipLists
            /\ exp_options \in ExportOptionsUniverse
            /\ exp_atCall = exp_this
            /\ exp_result = EmptyResult
            /\ exp_trace = <<>>
            /\ exp_outcome = None
            /\ exp_received = None
            /\ exp_calls = 1
            /\ exp_kept = None
       ELSE \E via \in {"caller", "exportToXml"} :
               NoExporter(via, createXmlExporter(None, None))
    /\ ValIdle /\ LayIdle /\ EscIdle /\ ViewIdle /\ GenIdle /\ ThmIdle /\ FacIdle /\ XmlIdle /\ MdlIdle /\ FrgIdle /\ DimIdle /\ DocIdle /\ ElsIdle

\* A step of exportModel throws: the catch block, and the call is over
Throw(result, message, trace) ==
    /\ exp_result' = Catch(result, message).result
    /\ exp_outcome' = Some(Thrown(Catch(result, message).thrown))
    /\ exp_trace' = trace
    /\ exp_pc' = "thrown"

\* Step 1 of exportModel: the pre-export checks
ExportModel_Step1 ==
    /\ exp_pc = "step1"
    /\ IF exp_options.validateModel
       THEN LET validationResult ==
                    validateModelInputs(exp_elements, exp_relationships,
                                        exp_options.strictValidation)
                result == [exp_result EXCEPT !.warnings = validationResult.warnings,
                                             !.errors = validationResult.errors]
                trace == Append(exp_trace, "validateModelInputs")
            IN IF StrictAbort(result, exp_options)
               THEN Throw(result, <<"Model validation failed: ">> \o Join(result.errors),
                          trace)
               ELSE /\ exp_result' = result
                    /\ exp_trace' = trace
                    /\ exp_pc' = "step2"
                    /\ UNCHANGED exp_outcome
       ELSE /\ exp_pc' = "step2"
            /\ UNCHANGED <<exp_result, exp_trace, exp_outcome>>
    /\ UNCHANGED <<exp_this, exp_via, exp_elements, exp_relationships, exp_options,
                   exp_atCall, exp_received, exp_calls, exp_kept,
                   valVars, layVars, escVars, viewVars, genVars, thmVars, facVars, xmlVars, mdlVars, frgVars, dimVars, docVars, elsVars, envVars>>

\* Step 2 of exportModel: the theme and the layout of the options
ExportModel_Step2 ==
    /\ exp_pc = "step2"
    /\ LET configured == configureVisualization(exp_this, exp_options)
           trace == Append(exp_trace, "configureVisualization")
       IN IF configured.ok
          THEN /\ exp_this' = configured.value
               /\ exp_trace' = trace
               /\ exp_pc' = "step3"
               /\ UNCHANGED <<exp_result, exp_outcome>>
          ELSE /\ Throw(exp_result, configured.message, trace)
               /\ UNCHANGED exp_this
    /\ UNCHANGED <<exp_via, exp_elements, exp_relationships, exp_options,
                   exp_atCall, exp_received, exp_calls, exp_kept,
                   valVars, layVars, escVars, viewVars, genVars, thmVars, facVars, xmlVars, mdlVars, frgVars, dimVars, docVars, elsVars, envVars>>

\* Step 3 of exportModel: the model assembler
ExportModel_Step3 ==
    /\ exp_pc = "step3"
    /\ \E generated \in {ModelXmlGenerator_generate(exp_this.modelGenerator,
                               exp_elements, exp_relationships,
                               buildModelOptions(exp_options))} :
       LET trace == Append(exp_trace, "modelGenerator.generate")
       IN IF generated.ok
          THEN /\ exp_result' = [exp_result EXCEPT !.xml = Some(generated.value)]
               /\ exp_trace' = trace
               /\ exp_pc' = "step4"
               /\ UNCHANGED exp_outcome
          ELSE Throw(exp_result, generated.message, trace)
    /\ UNCHANGED <<exp_this, exp_via, exp_elements, exp_relationships, exp_options,
                   exp_atCall, exp_received, exp_calls, exp_kept,
                   valVars, layVars, escVars, viewVars, genVars, thmVars, facVars, xmlVars, mdlVars, frgVars, dimVars, docVars, elsVars, envVars>>

\* Step 4 of exportModel and its return
ExportModel_Step4 ==
    /\ exp_pc = "step4"
    /\ exp_result' = IF exp_options.includeStatistics
                     THEN [exp_result EXCEPT !.statistics =
                              Some(collectStatistics(exp_this, exp_elements,
                                                     exp_relationships, exp_options))]
                     ELSE exp_result
    /\ exp_outcome' = Some(Returned(exp_result'))
    /\ exp_trace' = IF exp_options.includeStatistics
                    THEN Append(exp_trace, "collectStatistics") ELSE exp_trace
    /\ exp_pc' = "returned"
    /\ UNCHANGED <<exp_this, exp_via, exp_elements, exp_relationships, exp_options,
                   exp_atCall, exp_received, exp_calls, exp_kept,
                   valVars, layVars, escVars, viewVars, genVars, thmVars, facVars, xmlVars, mdlVars, frgVars, dimVars, docVars, elsVars, envVars>>

\* exportToXml after its exportModel call: the error goes on to the caller,
\* a result with errors is thrown, any other result gives its xml
ExportToXml_Return ==
    /\ exp_pc \in {"returned", "thrown"}
    /\ exp_via = "exportToXml"
    /\ exp_received' =
           Some(IF ~Val(exp_outcome).ok THEN Val(exp_outcome)
                ELSE IF Len(Val(exp_outcome).value.errors) > 0
                     THEN Thrown(<<"Export failed: ">>
                                 \o Join(Val(exp_outcome).value.errors))
                     ELSE Returned(Val(exp_outcome).value.xml))
    /\ exp_pc' = "finished"
    /\ UNCHANGED <<exp_this, exp_via, exp_elements, exp_relationships, exp_options,
                   exp_atCall, exp_result, exp_trace, exp_outcome, exp_calls,
                   exp_kept, valVars, layVars, escVars, viewVars, genVars, thmVars, facVars, xmlVars, mdlVars, frgVars, dimVars, docVars, elsVars, envVars>>

ExportModel ==
    \/ ExportModel_Step1
    \/ ExportModel_Step2
    \/ ExportModel_Step3
    \/ ExportModel_Step4

SpecExport == ExportInit /\ [][ExportModel \/ ExportToXml_Return]_vars

\* The arguments of the calls of SpecExportCalls
CallsElementLists ==
    {<<BusinessActor(<<"a">>, NameCustomer),
       BusinessProcess(<<"b">>, NameOrderProcessing)>>}

CallsRelationshipLists ==
    {<<>>, <<Relationship(<<"r1">>, <<"a">>, <<"b">>, "Triggering")>>}

CallsOptionsUniverse ==
    {[NoExportOptions EXCEPT !.includeStatistics = TRUE,
                             !.includeViews = includeViews,
                             !.colorTheme = colorTheme,
                             !.layoutConfiguration = layoutConfiguration] :
        includeViews \in {None, Some(TRUE)},
        colorTheme \in {None, Some(ThemeName("monochrome"))},
        layoutConfiguration \in {None, Some(CompactPartial)}}

ExportCallsInit ==
    /\ __dirname \in DirnameBindings
    /\ IF createXmlExporter(None, None).ok
       THEN /\ exp_pc = "idle"
            /\ exp_via = "caller"
            /\ exp_this = createXmlExporter(None, None).value
            /\ exp_elements \in CallsElementLists
            /\ exp_relationships \in CallsRelationshipLists
            /\ exp_options = NoExportOptions
            /\ exp_atCall = exp_this
            /\ exp_result = EmptyResult
            /\ exp_trace = <<>>
            /\ exp_outcome = None
            /\ exp_received = None
            /\ exp_calls = 0
            /\ exp_kept = None
       ELSE NoExporter("caller", createXmlExporter(None, None))
    /\ ValIdle /\ LayIdle /\ EscIdle /\ ViewIdle /\ GenIdle /\ ThmIdle /\ FacIdle /\ XmlIdle /\ MdlIdle /\ FrgIdle /\ DimIdle /\ DocIdle /\ ElsIdle

\* The caller makes a new exporter, createXmlExporter(), and goes on with
\* it; with the one it had when the call throws
Exp_createXmlExporter ==
    /\ exp_pc \in {"idle", "returned", "thrown"}
    /\ exp_this' = IF createXmlExporter(None, None).ok
                   THEN createXmlExporter(None, None).value ELSE exp_this
    /\ UNCHANGED <<exp_pc, exp_via, exp_elements, exp_relationships, exp_options,
                   exp_atCall, exp_result, exp_trace, exp_outcome, exp_received,
                   exp_calls, exp_kept, valVars, layVars, escVars, viewVars, genVars, thmVars, facVars, xmlVars, mdlVars, frgVars, dimVars, docVars, elsVars, envVars>>

\* exporter.setColorTheme(theme) between two calls
Exp_setColorTheme ==
    /\ exp_pc \in {"idle", "returned", "thrown"}
    /\ \E theme \in {ThemeName("archimate"), CallersTheme(createMonochromeTheme)} :
          exp_this' = setColorTheme(exp_this, theme).value
    /\ UNCHANGED <<exp_pc, exp_via, exp_elements, exp_relationships, exp_options,
                   exp_atCall, exp_result, exp_trace, exp_outcome, exp_received,
                   exp_calls, exp_kept, valVars, layVars, escVars, viewVars, genVars, thmVars, facVars, xmlVars, mdlVars, frgVars, dimVars, docVars, elsVars, envVars>>

\* exporter.setLayoutConfiguration(config) between two calls
Exp_setLayoutConfiguration ==
    /\ exp_pc \in {"idle", "returned", "thrown"}
    /\ \E config \in {EmptyPartial, CompactPartial} :
          exp_this' = setLayoutConfiguration(exp_this, config)
    /\ UNCHANGED <<exp_pc, exp_via, exp_elements, exp_relationships, exp_options,
                   exp_atCall, exp_result, exp_trace, exp_outcome, exp_received,
                   exp_calls, exp_kept, valVars, layVars, escVars, viewVars, genVars, thmVars, facVars, xmlVars, mdlVars, frgVars, dimVars, docVars, elsVars, envVars>>

\* The caller calls exportModel with the same elements and relationships and
\* with options of its choice; the call that is over may be the one kept for
\* comparison
Exp_exportModel ==
    /\ exp_pc \in {"idle", "returned", "thrown"}
    /\ exp_calls < MaxExportCalls
    /\ \E options \in CallsOptionsUniverse, keep \in BOOLEAN :
          /\ exp_options' = options
          /\ exp_kept' = IF keep /\ exp_pc # "idle"
                         THEN Some([options |-> exp_options, atCall |-> exp_atCall,
                                    outcome |-> Val(exp_outcome)])
                         ELSE exp_kept
    /\ exp_atCall' = exp_this
    /\ exp_result' = EmptyResult
    /\ exp_trace' = <<>>
    /\ exp_outcome' = None
    /\ exp_calls' = exp_calls + 1
    /\ exp_pc' = "step1"
    /\ UNCHANGED <<exp_this, exp_via, exp_elements, exp_relationships, exp_received,
                   valVars, layVars, escVars, viewVars, genVars, thmVars, facVars, xmlVars, mdlVars, frgVars, dimVars, docVars, elsVars, envVars>>

SpecExportCalls ==
    ExportCallsInit
    /\ [][Exp_createXmlExporter \/ Exp_setColorTheme \/ Exp_setLayoutConfiguration
          \/ Theme_setElementColors
          \/ Exp_exportModel \/ ExportModel]_vars

-----------------------------------------------------------------------------
(* The relationship generator's specification: generateRelationships is    *)
(* called once, with the arguments drawn in the initial state.             *)

MaxGenRelationships == 3

GenRelationshipUniverse ==
    {Relationship(<<"r1">>, <<"a">>, <<"b">>, "Triggering"),
     Relationship(<<"r2">>, <<"a">>, <<"z">>, "Composition"),
     Relationship(<<"r3">>, <<"y">>, <<"b">>, "Serving"),
     Relationship(<<"r4">>, <<"b">>, <<"a">>, "Flow")}

GenElementLists ==
    {None, Some(<<>>),
     Some(<<BusinessActor(<<"a">>, NameCustomer),
            BusinessProcess(<<"b">>, NameOrderProcessing)>>)}

GenOptionsUniverse ==
    {[NoRelationshipOptions EXCEPT !.includeNames = includeNames,
                                   !.validateReferences = validateReferences,
                                   !.groupByType = groupByType] :
        includeNames \in BOOLEAN, validateReferences \in BOOLEAN,
        groupByType \in BOOLEAN}

GenInit ==
    /\ __dirname \in DirnameBindings
    /\ gen_pc = "ready"
    /\ gen_relationships \in SeqsUpTo(GenRelationshipUniverse, MaxGenRelationships)
    /\ gen_options \in GenOptionsUniverse
    /\ gen_elements \in GenElementLists
    /\ gen_result = None
    /\ ValIdle /\ LayIdle /\ EscIdle /\ ViewIdle /\ ExpIdle /\ ThmIdle /\ FacIdle /\ XmlIdle /\ MdlIdle /\ FrgIdle /\ DimIdle /\ DocIdle /\ ElsIdle

\* new RelationshipXmlGenerator().generateRelationships(relationships,
\* options, elements); what the constructor throws when it does
GenerateRelationships ==
    /\ gen_pc = "ready"
    /\ IF RelationshipXmlGenerator.ok
       THEN /\ gen_result' = Some(generateRelationships(gen_relationships,
                                                        gen_options, gen_elements))
            /\ gen_pc' = "done"
       ELSE /\ gen_result' = Some(RelationshipXmlGenerator)
            /\ gen_pc' = "unconstructed"
    /\ UNCHANGED <<gen_relationships, gen_options, gen_elements,
                   valVars, layVars, escVars, viewVars, expVars, thmVars, facVars, xmlVars, mdlVars, frgVars, dimVars, docVars, elsVars, envVars>>

SpecRelationships == GenInit /\ [][GenerateRelationships]_vars

-----------------------------------------------------------------------------
(* The theme names' specification: a caller gives a theme by name to       *)
(* createXmlExporter, to setColorTheme of the exporter it has, or to       *)
(* exportModel in the colorTheme option, any number of times.              *)

ThemeNames == {"archimate", "monochrome", "high-contrast", "neon"}

ThemesElements == <<BusinessActor(<<"a">>, NameCustomer)>>

ThemesInit ==
    /\ __dirname \in DirnameBindings
    /\ IF createXmlExporter(None, None).ok
       THEN /\ exp_pc = "idle"
            /\ exp_via = "caller"
            /\ exp_this = createXmlExporter(None, None).value
            /\ exp_elements = ThemesElements
            /\ exp_relationships = <<>>
            /\ exp_options = NoExportOptions
            /\ exp_atCall = exp_this
            /\ exp_result = EmptyResult
            /\ exp_trace = <<>>
            /\ exp_outcome = None
            /\ exp_received = None
            /\ exp_calls = 0
            /\ exp_kept = None
       ELSE NoExporter("caller", createXmlExporter(None, None))
    /\ thm_entry = "none"
    /\ thm_name = ""
    /\ thm_outcome = None
    /\ ValIdle /\ LayIdle /\ EscIdle /\ ViewIdle /\ GenIdle /\ FacIdle /\ XmlIdle /\ MdlIdle /\ FrgIdle /\ DimIdle /\ DocIdle /\ ElsIdle

\* exporter = createXmlExporter({ colorTheme: name })
Thm_createXmlExporter ==
    /\ exp_pc \in {"idle", "returned", "thrown"}
    /\ \E name \in ThemeNames :
          /\ \E made \in {createXmlExporter(Some(ThemeName(name)), None)} :
                /\ exp_this' = IF made.ok THEN made.value ELSE exp_this
                /\ thm_outcome' = Some(made)
          /\ thm_name' = name
    /\ thm_entry' = "createXmlExporter"
    /\ UNCHANGED <<exp_pc, exp_via, exp_elements, exp_relationships, exp_options,
                   exp_atCall, exp_result, exp_trace, exp_outcome, exp_received,
                   exp_calls, exp_kept, valVars, layVars, escVars, viewVars, genVars, facVars, xmlVars, mdlVars, frgVars, dimVars, docVars, elsVars, envVars>>

\* exporter.setColorTheme(name)
Thm_setColorTheme ==
    /\ exp_pc \in {"idle", "returned", "thrown"}
    /\ \E name \in ThemeNames :
          /\ \E set \in {setColorTheme(exp_this, ThemeName(name))} :
                /\ exp_this' = IF set.ok THEN set.value ELSE exp_this
                /\ thm_outcome' = Some(set)
          /\ thm_name' = name
    /\ thm_entry' = "setColorTheme"
    /\ UNCHANGED <<exp_pc, exp_via, exp_elements, exp_relationships, exp_options,
                   exp_atCall, exp_result, exp_trace, exp_outcome, exp_received,
                   exp_calls, exp_kept, valVars, layVars, escVars, viewVars, genVars, facVars, xmlVars, mdlVars, frgVars, dimVars, docVars, elsVars, envVars>>

\* exporter.exportModel(elements, [], { colorTheme: name }): the call starts
Thm_exportModel ==
    /\ exp_pc \in {"idle", "returned", "thrown"}
    /\ \E name \in ThemeNames :
          /\ exp_options' = [NoExportOptions EXCEPT !.colorTheme = Some(ThemeName(name))]
          /\ thm_name' = name
    /\ thm_entry' = "exportModel"
    /\ thm_outcome' = None
    /\ exp_atCall' = exp_this
    /\ exp_result' = EmptyResult
    /\ exp_trace' = <<>>
    /\ exp_outcome' = None
    /\ exp_pc' = "step1"
    /\ UNCHANGED <<exp_this, exp_via, exp_elements, exp_relationships, exp_received,
                   exp_calls, exp_kept, valVars, layVars, escVars, viewVars, genVars, facVars, xmlVars, mdlVars, frgVars, dimVars, docVars, elsVars, envVars>>

SpecThemes ==
    ThemesInit
    /\ [][Thm_createXmlExporter \/ Thm_setColorTheme \/ Thm_exportModel
          \/ ExportModel]_vars

-----------------------------------------------------------------------------
(* The exporter's configuration: a caller makes exporters, sets themes by  *)
(* name and layout configurations, and exports with options that carry a   *)
(* theme, a layout configuration and the validation switches, in any       *)
(* order.                                                                  *)

ConfiguringElementLists ==
    {ThemesElements,
     <<BusinessActor(<<"a">>, NameCustomer), Goal(<<"a">>, NameCustomer)>>}

ConfiguringOptionsUniverse ==
    {[NoExportOptions EXCEPT !.colorTheme = colorTheme,
                             !.layoutConfiguration = layoutConfiguration,
                             !.validateModel = strict,
                             !.strictValidation = strict] :
        colorTheme \in {None, Some(CallersTheme(createMonochromeTheme)),
                        Some(ThemeName("monochrome")), Some(ThemeName("neon"))},
        layoutConfiguration \in {None, Some(CompactPartial)},
        strict \in BOOLEAN}

ConfiguringInit ==
    /\ __dirname \in DirnameBindings
    /\ IF createXmlExporter(None, None).ok
       THEN /\ exp_pc = "idle"
            /\ exp_via = "caller"
            /\ exp_this = createXmlExporter(None, None).value
            /\ exp_elements \in ConfiguringElementLists
            /\ exp_relationships = <<>>
            /\ exp_options = NoExportOptions
            /\ exp_atCall = exp_this
            /\ exp_result = EmptyResult
            /\ exp_trace = <<>>
            /\ exp_outcome = None
            /\ exp_received = None
            /\ exp_calls = 0
            /\ exp_kept = None
       ELSE NoExporter("caller", createXmlExporter(None, None))
    /\ thm_entry = "none"
    /\ thm_name = ""
    /\ thm_outcome = None
    /\ ValIdle /\ LayIdle /\ EscIdle /\ ViewIdle /\ GenIdle /\ FacIdle /\ XmlIdle /\ MdlIdle /\ FrgIdle /\ DimIdle /\ DocIdle /\ ElsIdle

\* exporter = new XmlExporter(colorTheme, layoutConfig)
Cfg_XmlExporter ==
    /\ exp_pc \in {"idle", "returned", "thrown"}
    /\ \E colorTheme \in {None, Some(CallersTheme(createHighContrastTheme))},
          layoutConfig \in {None, Some(CompactPartial)} :
          \E made \in {XmlExporter(colorTheme, layoutConfig)} :
             /\ exp_this' = IF made.ok THEN made.value ELSE exp_this
             /\ thm_outcome' = Some(made)
    /\ thm_entry' = "constructor"
    /\ thm_name' = ""
    /\ UNCHANGED <<exp_pc, exp_via, exp_elements, exp_relationships, exp_options,
                   exp_atCall, exp_result, exp_trace, exp_outcome, exp_received,
                   exp_calls, exp_kept, valVars, layVars, escVars, viewVars, genVars, facVars, xmlVars, mdlVars, frgVars, dimVars, docVars, elsVars, envVars>>

\* exporter.setLayoutConfiguration(config)
Cfg_setLayoutConfiguration ==
    /\ exp_pc \in {"idle", "returned", "thrown"}
    /\ \E config \in {EmptyPartial, CompactPartial} :
          /\ exp_this' = setLayoutConfiguration(exp_this, config)
          /\ thm_outcome' = Some(Returned(exp_this'))
    /\ thm_entry' = "setLayoutConfiguration"
    /\ thm_name' = ""
    /\ UNCHANGED <<exp_pc, exp_via, exp_elements, exp_relationships, exp_options,
                   exp_atCall, exp_result, exp_trace, exp_outcome, exp_received,
                   exp_calls, exp_kept, valVars, layVars, escVars, viewVars, genVars, facVars, xmlVars, mdlVars, frgVars, dimVars, docVars, elsVars, envVars>>

\* exporter.exportModel(elements, [], options): the call starts
Cfg_exportModel ==
    /\ exp_pc \in {"idle", "returned", "thrown"}
    /\ exp_options' \in ConfiguringOptionsUniverse
    /\ thm_entry' = "exportModel"
    /\ thm_name' = ""
    /\ thm_outcome' = None
    /\ exp_atCall' = exp_this
    /\ exp_result' = EmptyResult
    /\ exp_trace' = <<>>
    /\ exp_outcome' = None
    /\ exp_pc' = "step1"
    /\ UNCHANGED <<exp_this, exp_via, exp_elements, exp_relationships, exp_received,
                   exp_calls, exp_kept, valVars, layVars, escVars, viewVars, genVars, facVars, xmlVars, mdlVars, frgVars, dimVars, docVars, elsVars, envVars>>

SpecConfiguring ==
    ConfiguringInit
    /\ [][Cfg_XmlExporter \/ Thm_setColorTheme \/ Cfg_setLayoutConfiguration
          \/ Theme_setElementColors \/ Theme_resetToDefaults \/ Theme_importTheme
          \/ Cfg_exportModel \/ ExportModel]_vars

-----------------------------------------------------------------------------
(* The identifiers of an export: exportModel is called once with           *)
(* validation on, for models whose ids are plain, equal across the two      *)
(* lists, or spelled like the ids the view generator derives.               *)

MaxIdElements == 2

IdElementUniverse ==
    {BusinessActor(<<"a">>, NameCustomer),
     BusinessProcess(<<"b">>, NameOrderProcessing),
     BusinessProcess(<<"r1">>, NameOrderProcessing),
     BusinessProcess(<<"visual-", "a">>, NameOrderProcessing),
     BusinessProcess(<<"connection-", "r1">>, NameOrderProcessing)}

IdRelationshipLists ==
    {<<>>,
     <<Relationship(<<"r1">>, <<"a">>, <<"b">>, "Triggering")>>,
     <<Relationship(<<"r1">>, <<"a">>, <<"r1">>, "Triggering")>>,
     <<Relationship(<<"a">>, <<"a">>, <<"b">>, "Triggering")>>,
     <<Relationship(<<"r1">>, <<"a">>, <<"a">>, "Triggering"),
       Relationship(<<"r1">>, <<"a">>, <<"a">>, "Flow")>>,
     <<Relationship(<<"r1">>, <<"a">>, <<"a">>, "Triggering"),
       Relationship(<<"connection-", "r1">>, <<"a">>, <<"a">>, "Flow")>>}

ExportIdsInit ==
    /\ __dirname \in DirnameBindings
    /\ IF createXmlExporter(None, None).ok
       THEN /\ exp_pc = "step1"
            /\ exp_via = "caller"
            /\ exp_this = createXmlExporter(None, None).value
            /\ exp_elements \in SeqsUpTo(IdElementUniverse, MaxIdElements)
            /\ exp_relationships \in IdRelationshipLists
            /\ \E strict \in BOOLEAN :
                  exp_options = [NoExportOptions EXCEPT !.validateModel = TRUE,
                                                        !.strictValidation = strict]
            /\ exp_atCall = exp_this
            /\ exp_result = EmptyResult
            /\ exp_trace = <<>>
            /\ exp_outcome = None
            /\ exp_received = None
            /\ exp_calls = 1
            /\ exp_kept = None
       ELSE NoExporter("caller", createXmlExporter(None, None))
    /\ ValIdle /\ LayIdle /\ EscIdle /\ ViewIdle /\ GenIdle /\ ThmIdle /\ FacIdle /\ XmlIdle /\ MdlIdle /\ FrgIdle /\ DimIdle /\ DocIdle /\ ElsIdle

SpecExportIds == ExportIdsInit /\ [][ExportModel]_vars

-----------------------------------------------------------------------------
(* The element factory's specification: ElementFactory.create is called    *)
(* once, with the arguments drawn in the initial state.                    *)

\* The types a caller may pass: the ElementType vocabulary and, from
\* untyped code, a string outside it
FactoryTypes == ElementTypes \cup {"Grouping"}

FactoryIds == {<<"a">>, <<"b">>}
FactoryNames == {<<>>, NameCustomer, NameOrderProcessing}

FactoryInit ==
    /\ fac_pc = "ready"
    /\ fac_type \in FactoryTypes
    /\ fac_id \in FactoryIds
    /\ fac_name \in FactoryNames
    /\ fac_result = None
    /\ ValIdle /\ LayIdle /\ EscIdle /\ ViewIdle /\ ExpIdle /\ GenIdle /\ ThmIdle /\ XmlIdle /\ MdlIdle /\ FrgIdle /\ DimIdle /\ DocIdle /\ ElsIdle /\ EnvIdle

\* ElementFactory.create(type, id, name)
Create ==
    /\ fac_pc = "ready"
    /\ fac_result' = Some(ElementFactory_create(fac_type, fac_id, fac_name))
    /\ fac_pc' = "done"
    /\ UNCHANGED <<fac_type, fac_id, fac_name,
                   valVars, layVars, escVars, viewVars, expVars, genVars, thmVars, xmlVars, mdlVars, frgVars, dimVars, docVars, elsVars, envVars>>

SpecFactory == FactoryInit /\ [][Create]_vars

-----------------------------------------------------------------------------
(* The XML validator's specification: a text and what the DOMParser makes  *)
(* of it are drawn in the initial state; validateXmlString then runs check *)
(* by check.                                                               *)

MaxXmlNodes == 2

XmlNode(tagName, attributes) == [tagName |-> tagName, attributes |-> attributes]

\* No attributes
NoAttributes == [name \in {} |-> <<>>]

XmlRoots ==
    { XmlNode("model", [identifier |-> <<"m">>, xmlns |-> <<ARCHIMATE_NAMESPACE>>]
                       @@ ("xmlns:xsi" :> <<XSI_NAMESPACE>>)
                       @@ ("xsi:schemaLocation" :>
                               <<ARCHIMATE_NAMESPACE, " ", SCHEMA_LOCATION>>)),
      XmlNode("model", NoAttributes),
      XmlNode("archimate", [identifier |-> <<"a">>, xmlns |-> <<ARCHIMATE_NAMESPACE>>]) }

XmlChildren ==
    { XmlNode("element", [identifier |-> <<"a">>] @@ ("xsi:type" :> <<"BusinessActor">>)),
      XmlNode("element", [identifier |-> <<"b">>]
                         @@ ("xsi:type" :> <<"archimate", ":", "BusinessProcess">>)),
      XmlNode("element", [identifier |-> <<"c">>] @@ ("xsi:type" :> <<"Gadget">>)),
      XmlNode("element", [identifier |-> <<"d">>, id |-> <<"d2">>]
                         @@ ("xsi:type" :> <<"ApplicationComponent">>)),
      XmlNode("element", [identifier |-> <<"e">>]
                         @@ ("xsi:type" :> <<"xsi", ":", "foo", ":", "BusinessActor">>)),
      XmlNode("element", [identifier |-> <<"f">>]
                         @@ ("xsi:type" :> <<"foo", ":", "Gadget">>)),
      XmlNode("node", [id |-> <<"a">>]),
      XmlNode("relationship", [identifier |-> <<"r1">>, source |-> <<"a">>,
                               target |-> <<"b">>]
                              @@ ("xsi:type" :> <<"Triggering">>)),
      XmlNode("relationship", [identifier |-> <<"r2">>, source |-> <<"a">>,
                               target |-> <<"r1">>]
                              @@ ("xsi:type" :> <<"archimate", ":", "Serving", "Relationship">>)),
      XmlNode("element", [identifier |-> <<"r3">>, source |-> <<"b">>,
                          target |-> <<"z">>]
                         @@ ("xsi:type" :> <<"Flow", "Relationship">>)),
      XmlNode("relationship", [identifier |-> <<"r4">>, target |-> <<"a">>]
                              @@ ("xsi:type" :> <<"Linking">>)),
      XmlNode("name", NoAttributes) }

\* The documents: a root and up to MaxXmlNodes children
XmlDocuments ==
    UNION { { <<root>> \o children : children \in [1..n -> XmlChildren] } :
            root \in XmlRoots, n \in 0..MaxXmlNodes }

\* The order in which a node's attributes are written
AttributeOrder ==
    <<"identifier", "id", "xmlns", "xmlns:xsi", "xsi:schemaLocation", "xsi:type",
      "source", "target">>

RECURSIVE RenderAttributes(_, _)
RenderAttributes(node, names) ==
    IF names = <<>> THEN <<>>
    ELSE (IF Head(names) \in DOMAIN node.attributes
          THEN <<" ", Head(names), "=\"">> \o node.attributes[Head(names)] \o <<"\"">>
          ELSE <<>>)
         \o RenderAttributes(node, Tail(names))

RECURSIVE RenderChildren(_)
RenderChildren(nodes) ==
    IF nodes = <<>> THEN <<>>
    ELSE <<"<", Head(nodes).tagName>> \o RenderAttributes(Head(nodes), AttributeOrder)
         \o <<"/", ">">> \o RenderChildren(Tail(nodes))

XmlDeclaration == <<"<", "?xml", " version=\"1.0\"", "?", ">", "\n">>

OpenTag(root) == <<"<", root.tagName>> \o RenderAttributes(root, AttributeOrder) \o <<">">>

\* The text of a document, with or without the XML declaration, with or
\* without a ">" in the character data of the root
XmlText(doc, declared, stray) ==
    (IF declared THEN XmlDeclaration ELSE <<>>)
    \o OpenTag(doc[1]) \o RenderChildren(Tail(doc))
    \o (IF stray THEN <<"a ", ">", " b">> ELSE <<>>)
    \o <<"<", "/", doc[1].tagName, ">">>

\* The inputs: blank texts; the texts of the documents; texts whose root is
\* never closed and texts without any markup, of which the DOMParser of one
\* release makes a document and that of another throws
XmlInputs ==
    { [xml |-> blank, parsed |-> None] : blank \in {<<>>, <<" ", "\n">>} }
    \cup { [xml |-> XmlText(doc, declared, stray), parsed |-> Some(doc)] :
           doc \in XmlDocuments, declared \in BOOLEAN, stray \in BOOLEAN }
    \cup { [xml |-> OpenTag(root), parsed |-> IF thrown THEN None ELSE Some(<<root>>)] :
           root \in XmlRoots, thrown \in BOOLEAN }
    \cup { [xml |-> <<"hello">>, parsed |-> parsed] : parsed \in {None, Some(<<>>)} }

XmlInit ==
    /\ xml_pc = "ready"
    /\ \E input \in XmlInputs :
          /\ xml_xml = input.xml
          /\ xml_parsed = input.parsed
    /\ xml_result = [isValid |-> TRUE, errors |-> <<>>, warnings |-> <<>>]
    /\ xml_trace = <<>>
    /\ ValIdle /\ LayIdle /\ EscIdle /\ ViewIdle /\ ExpIdle /\ GenIdle /\ ThmIdle /\ FacIdle /\ MdlIdle /\ FrgIdle /\ DimIdle /\ DocIdle /\ ElsIdle /\ EnvIdle

\* One check of validateXmlString that does not end the run
XmlCheck(pc, findings, next) ==
    /\ xml_pc = pc
    /\ xml_result' = PushAll(xml_result, findings)
    /\ xml_trace' = Append(xml_trace, pc)
    /\ xml_pc' = next
    /\ UNCHANGED <<xml_xml, xml_parsed,
                   valVars, layVars, escVars, viewVars, expVars, genVars, thmVars, facVars, mdlVars, frgVars, dimVars, docVars, elsVars, envVars>>

\* 1. Check well-formedness
Xml_WellFormedness ==
    /\ xml_pc = "ready"
    /\ LET wellFormednessResult == validateWellFormedness(xml_xml) IN
       /\ xml_result' =
              [PushAll(xml_result, wellFormednessResult) EXCEPT
                  !.isValid = IF wellFormednessResult.errors # <<>> THEN FALSE ELSE @]
       /\ xml_pc' = IF wellFormednessResult.errors # <<>> THEN "done" ELSE "parse"
    /\ xml_trace' = Append(xml_trace, "wellFormedness")
    /\ UNCHANGED <<xml_xml, xml_parsed,
                   valVars, layVars, escVars, viewVars, expVars, genVars, thmVars, facVars, mdlVars, frgVars, dimVars, docVars, elsVars, envVars>>

\* 2. Parse XML document
Xml_Parse ==
    /\ xml_pc = "parse"
    /\ IF ~IsSome(xml_parsed)
       THEN /\ xml_result' =
                   [xml_result EXCEPT
                       !.isValid = FALSE,
                       !.errors = Append(@, XmlError("structure",
                                                     <<"Failed to parse XML document">>,
                                                     None))]
            /\ xml_pc' = "done"
       ELSE /\ xml_result' = xml_result
            /\ xml_pc' = "structure"
    /\ xml_trace' = Append(xml_trace, "parse")
    /\ UNCHANGED <<xml_xml, xml_parsed,
                   valVars, layVars, escVars, viewVars, expVars, genVars, thmVars, facVars, mdlVars, frgVars, dimVars, docVars, elsVars, envVars>>

\* 3. Validate structure
Xml_Structure == XmlCheck("structure", validateStructure(xml_parsed), "namespace")

\* 4. Validate namespace
Xml_Namespace == XmlCheck("namespace", validateNamespace(Val(xml_parsed)), "uniqueness")

\* 5. Validate element uniqueness
Xml_Uniqueness ==
    XmlCheck("uniqueness", validateElementUniqueness(Val(xml_parsed)), "references")

\* 6. Validate relationship references
Xml_References ==
    XmlCheck("references", XmlValidator_validateRelationshipReferences(Val(xml_parsed)),
             "types")

\* 7. Validate ArchiMate element types; result.isValid = result.errors.length === 0
Xml_Types ==
    /\ xml_pc = "types"
    /\ xml_result' =
           [PushAll(xml_result, validateArchiMateTypes(Val(xml_parsed))) EXCEPT
               !.isValid =
                   (xml_result.errors \o validateArchiMateTypes(Val(xml_parsed)).errors
                    = <<>>)]
    /\ xml_trace' = Append(xml_trace, "types")
    /\ xml_pc' = "done"
    /\ UNCHANGED <<xml_xml, xml_parsed,
                   valVars, layVars, escVars, viewVars, expVars, genVars, thmVars, facVars, mdlVars, frgVars, dimVars, docVars, elsVars, envVars>>

XmlNext ==
    \/ Xml_WellFormedness
    \/ Xml_Parse
    \/ Xml_Structure
    \/ Xml_Namespace
    \/ Xml_Uniqueness
    \/ Xml_References
    \/ Xml_Types

SpecXmlValidator == XmlInit /\ [][XmlNext]_vars

-----------------------------------------------------------------------------
(* The specification of validateModel: the two lists are drawn in the      *)
(* initial state, the one action is the call.                              *)

MaxModelElements == 3
MaxModelRelationships == 2

ModelElementUniverse ==
    {BusinessActor(<<"a">>, NameCustomer),
     BusinessProcess(<<"b">>, NameOrderProcessing),
     BusinessActor(<<"a">>, <<"Duplicate Actor">>)}

ModelRelationshipUniverse ==
    {Relationship(<<"r1">>, <<"a">>, <<"b">>, "Triggering"),
     Relationship(<<"r1">>, <<"b">>, <<"a">>, "Flow"),
     Relationship(<<"r2">>, <<"a">>, <<"z">>, "Composition"),
     Relationship(<<"r3">>, <<"y">>, <<"z">>, "Association")}

ModelInit ==
    /\ mdl_pc = "ready"
    /\ mdl_elements \in SeqsUpTo(ModelElementUniverse, MaxModelElements)
    /\ mdl_relationships \in SeqsUpTo(ModelRelationshipUniverse, MaxModelRelationships)
    /\ mdl_result = None
    /\ ValIdle /\ LayIdle /\ EscIdle /\ ViewIdle /\ ExpIdle /\ GenIdle /\ ThmIdle /\ FacIdle /\ XmlIdle /\ FrgIdle /\ DimIdle /\ DocIdle /\ ElsIdle /\ EnvIdle

\* XmlValidator.validateModel(elements, relationships)
ValidateModel ==
    /\ mdl_pc = "ready"
    /\ mdl_result' = Some(validateModel(mdl_elements, mdl_relationships))
    /\ mdl_pc' = "done"
    /\ UNCHANGED <<mdl_elements, mdl_relationships,
                   valVars, layVars, escVars, viewVars, expVars, genVars, thmVars, facVars,
                   xmlVars, frgVars, dimVars, docVars, elsVars, envVars>>

SpecValidateModel == ModelInit /\ [][ValidateModel]_vars

-----------------------------------------------------------------------------
(* The fragments' specification: an element and a relationship are drawn   *)
(* in the initial state, among them values that hold the text of a         *)
(* placeholder or a $ pattern; generateElement and generateRelationship    *)
(* render them.                                                            *)

FragmentElementIds ==
    {<<"a">>, <<"a", "{{ELEMENT_DOCUMENTATION}}">>, <<"{{ELEMENT_NAME}}">>}

FragmentElementNames ==
    {<<"C">>, <<"A", "&", "B">>, <<"{{ELEMENT_ID}}">>, <<"{{ELEMENT_TYPE}}">>,
     <<"x", "{{ELEMENT_DOCUMENTATION}}">>, <<"$", "&">>, <<"n", "$", GraveAccent>>}

FragmentRelationshipIds ==
    {<<"r1">>, <<"r", "{{TARGET_ID}}">>, <<"{{SOURCE_ID}}">>, <<"r", "$", GraveAccent>>}
FragmentSourceIds == {<<"a">>, <<"{{TARGET_ID}}">>, <<"{{RELATIONSHIP_ID}}">>}
FragmentTargetIds == {<<"b">>, <<"{{SOURCE_ID}}">>, <<"b", "$", "'">>}

FragmentsInit ==
    /\ __dirname \in DirnameBindings
    /\ frg_pc = "ready"
    /\ \E id \in FragmentElementIds, name \in FragmentElementNames :
          frg_element \in {Goal(id, name), BusinessActor(id, name)}
    /\ \E id \in FragmentRelationshipIds, source \in FragmentSourceIds,
          target \in FragmentTargetIds :
          frg_relationship = Relationship(id, source, target, "Triggering")
    /\ frg_includeNames \in BOOLEAN
    /\ frg_elementXml = <<>>
    /\ frg_relationshipXml = <<>>
    /\ ValIdle /\ LayIdle /\ EscIdle /\ ViewIdle /\ ExpIdle /\ GenIdle /\ ThmIdle /\ FacIdle /\ XmlIdle /\ MdlIdle /\ DimIdle /\ DocIdle /\ ElsIdle

\* new ElementXmlGenerator().generateElement(element)
Frg_generateElement ==
    /\ frg_pc = "ready"
    /\ frg_elementXml' = generateElement(frg_element, NoElementOptions)
    /\ frg_pc' = "element"
    /\ UNCHANGED <<frg_element, frg_relationship, frg_includeNames, frg_relationshipXml,
                   valVars, layVars, escVars, viewVars, expVars, genVars, thmVars, facVars,
                   xmlVars, mdlVars, dimVars, docVars, elsVars, envVars>>

\* new RelationshipXmlGenerator().generateRelationship(relationship, options);
\* no call when the constructor throws
Frg_generateRelationship ==
    /\ frg_pc = "element"
    /\ IF RelationshipXmlGenerator.ok
       THEN /\ frg_relationshipXml' =
                   generateRelationship(frg_relationship,
                       [NoRelationshipOptions EXCEPT !.includeNames = frg_includeNames],
                       None).value
            /\ frg_pc' = "done"
       ELSE /\ frg_pc' = "unconstructed"
            /\ UNCHANGED frg_relationshipXml
    /\ UNCHANGED <<frg_element, frg_relationship, frg_includeNames, frg_elementXml,
                   valVars, layVars, escVars, viewVars, expVars, genVars, thmVars, facVars,
                   xmlVars, mdlVars, dimVars, docVars, elsVars, envVars>>

SpecFragments == FragmentsInit /\ [][Frg_generateElement \/ Frg_generateRelationship]_vars

-----------------------------------------------------------------------------
(* The specification of getElementDimensions: an engine and an element are *)
(* drawn in the initial state, the one action is the call.                 *)

MaxNameLength == 18

\* A configuration with a default element size of its own
LargePartial ==
    [EmptyPartial EXCEPT !.defaultElementSize = Some([width |-> 200, height |-> 100])]

\* The types of the typeAdjustments table with their layers, and three
\* types that are not in it
DimensionClasses ==
    {<<"BusinessActor", Layer_BUSINESS>>, <<"BusinessProcess", Layer_BUSINESS>>,
     <<"ApplicationComponent", Layer_APPLICATION>>,
     <<"ApplicationService", Layer_APPLICATION>>, <<"DataObject", Layer_APPLICATION>>,
     <<"Node", Layer_TECHNOLOGY>>, <<"Device", Layer_TECHNOLOGY>>,
     <<"Goal", Layer_MOTIVATION>>, <<"BusinessRole", Layer_BUSINESS>>,
     <<"Location", Layer_PHYSICAL>>}

\* The names: n times the same letter
DimensionNames == {[i \in 1..n |-> c] : n \in 0..MaxNameLength, c \in {"x", "W"}}

DimensionsInit ==
    /\ dim_pc = "ready"
    /\ dim_config \in {LayoutEngine(p) : p \in {EmptyPartial, CompactPartial, LargePartial}}
    /\ \E class \in DimensionClasses, id \in LayoutIds, name \in DimensionNames :
          dim_element = BaseElement(id, name, class[1], class[2])
    /\ dim_result = None
    /\ ValIdle /\ LayIdle /\ EscIdle /\ ViewIdle /\ ExpIdle /\ GenIdle /\ ThmIdle /\ FacIdle /\ XmlIdle /\ MdlIdle /\ FrgIdle /\ DocIdle /\ ElsIdle /\ EnvIdle

\* engine.getElementDimensions(element)
GetElementDimensions ==
    /\ dim_pc = "ready"
    /\ dim_result' = Some(getElementDimensions(dim_config, dim_element))
    /\ dim_config' = configAfterGetElementDimensions(dim_config, dim_element)
    /\ dim_pc' = "done"
    /\ UNCHANGED <<dim_element,
                   valVars, layVars, escVars, viewVars, expVars, genVars, thmVars, facVars,
                   xmlVars, mdlVars, frgVars, docVars, elsVars, envVars>>

SpecDimensions == DimensionsInit /\ [][GetElementDimensions]_vars

-----------------------------------------------------------------------------
(* The specification of generateDocumentation: an element and the options  *)
(* are drawn in the initial state, the one action is the call.             *)

DocumentationTemplates ==
    {None,
     Some(<<>>),
     Some(<<"See the model">>),
     Some(<<"{{ELEMENT_TYPE}}", " ", "{{ELEMENT_NAME}}", " (", "{{ELEMENT_LAYER}}", ")">>),
     Some(<<"{{ELEMENT_NAME}}", ": about ", "{{ELEMENT_NAME}}">>)}

DocumentationNames == {<<"C">>, NameCustomer, <<"A", "&", "B">>, <<"b", "$", "'">>}

DocumentationInit ==
    /\ doc_pc = "ready"
    /\ \E id \in LayoutIds, name \in DocumentationNames :
          doc_element \in {Goal(id, name), BusinessActor(id, name), Node(id, name)}
    /\ \E includeDocumentation \in BOOLEAN, template \in DocumentationTemplates :
          doc_options = [NoElementOptions EXCEPT
                            !.includeDocumentation = includeDocumentation,
                            !.documentationTemplate = template]
    /\ doc_result = None
    /\ ValIdle /\ LayIdle /\ EscIdle /\ ViewIdle /\ ExpIdle /\ GenIdle /\ ThmIdle /\ FacIdle /\ XmlIdle /\ MdlIdle /\ FrgIdle /\ DimIdle /\ ElsIdle /\ EnvIdle

\* generateDocumentation(element, options), as generateElement calls it
GenerateDocumentation ==
    /\ doc_pc = "ready"
    /\ doc_result' = Some(generateDocumentation(doc_element, doc_options))
    /\ doc_pc' = "done"
    /\ UNCHANGED <<doc_element, doc_options,
                   valVars, layVars, escVars, viewVars, expVars, genVars, thmVars, facVars,
                   xmlVars, mdlVars, frgVars, dimVars, elsVars, envVars>>

SpecDocumentation == DocumentationInit /\ [][GenerateDocumentation]_vars

-----------------------------------------------------------------------------
(* The specification of generateElements: a list of elements and the       *)
(* options are drawn in the initial state, the one action is the call.     *)

MaxGenElements == 3

GenElementUniverse ==
    {Goal(<<"a">>, NameCustomer), ValueStream(<<"a">>, NameCustomer),
     BusinessRole(<<"a">>, NameCustomer), BusinessActor(<<"a">>, NameCustomer),
     BusinessActor(<<"b">>, NameOrderProcessing), Node(<<"b">>, NameCustomer)}

ElementsInit ==
    /\ els_pc = "ready"
    /\ els_elements \in SeqsUpTo(GenElementUniverse, MaxGenElements)
    /\ \E groupByLayer \in BOOLEAN, includeDocumentation \in BOOLEAN :
          els_options = [NoElementOptions EXCEPT
                            !.groupByLayer = groupByLayer,
                            !.includeDocumentation = includeDocumentation]
    /\ els_result = None
    /\ ValIdle /\ LayIdle /\ EscIdle /\ ViewIdle /\ ExpIdle /\ GenIdle /\ ThmIdle /\ FacIdle /\ XmlIdle /\ MdlIdle /\ FrgIdle /\ DimIdle /\ DocIdle /\ EnvIdle

\* new ElementXmlGenerator().generateElements(elements, options)
GenerateElements ==
    /\ els_pc = "ready"
    /\ els_result' = Some(generateElements(els_elements, els_options))
    /\ els_pc' = "done"
    /\ UNCHANGED <<els_elements, els_options,
                   valVars, layVars, escVars, viewVars, expVars, genVars, thmVars, facVars,
                   xmlVars, mdlVars, frgVars, dimVars, docVars, envVars>>

SpecElements == ElementsInit /\ [][GenerateElements]_vars

-----------------------------------------------------------------------------
(* C1 *)

C1_Reported(r) == \E j \in DOMAIN val_errors : val_errors[j].relationship = r

C1_Resolves(id) == \E k \in DOMAIN val_elements : val_elements[k].id = id

\* The type of the element an id resolves to (the last one carrying the id)
C1_TypeOf(id) ==
    val_elements[SetMax({k \in DOMAIN val_elements : val_elements[k].id = id})].type

C1_Permitted(sourceType, targetType, relType) ==
    /\ sourceType \in DOMAIN validationMatrix
    /\ targetType \in DOMAIN validationMatrix[sourceType]
    /\ \E n \in DOMAIN validationMatrix[sourceType][targetType] :
          validationMatrix[sourceType][targetType][n] = relType

\* C1: validate reports a relationship if and only if both of its endpoints
\* resolve to input elements and the matrix has no entry for the ordered pair
\* of their types or the entry does not list the relationship's type; a
\* relationship with an unresolved endpoint is never reported, and nothing is
\* reported twice.
C1_ValidateReportsExactlyIllegal ==
    val_pc = "done" =>
        /\ \A i \in DOMAIN val_relationships :
              LET r == val_relationships[i] IN
              C1_Reported(r) <=>
                  /\ C1_Resolves(r.source)
                  /\ C1_Resolves(r.target)
                  /\ ~C1_Permitted(C1_TypeOf(r.source), C1_TypeOf(r.target), r.type)
        /\ Len(val_errors) =
              Cardinality({i \in DOMAIN val_relationships :
                              C1_Reported(val_relationships[i])})

\* C1 witness: one call in which a relationship with an unresolved endpoint is
\* skipped and a relationship between a pair without matrix entry is reported.
C1_Witness ==
    /\ val_pc = "done"
    /\ \E i, j \in DOMAIN val_relationships :
          /\ ~C1_Resolves(val_relationships[i].target)
          /\ ~C1_Reported(val_relationships[i])
          /\ C1_Resolves(val_relationships[j].source)
          /\ C1_Resolves(val_relationships[j].target)
          /\ MatrixGet(C1_TypeOf(val_relationships[j].source),
                       C1_TypeOf(val_relationships[j].target)) = None
          /\ C1_Reported(val_relationships[j])

-----------------------------------------------------------------------------
(* C2, C3, C4: the pre-export checks of exportModel *)

\* What the arguments of the call are like
Pre_IsEmpty == exp_elements = <<>>
Pre_Resolves(id) == \E i \in DOMAIN exp_elements : exp_elements[i].id = id
Pre_HasOrphan ==
    \E i \in DOMAIN exp_relationships :
        ~Pre_Resolves(exp_relationships[i].source)
        \/ ~Pre_Resolves(exp_relationships[i].target)
Pre_HasDuplicateElement ==
    \E i, j \in DOMAIN exp_elements : i < j /\ exp_elements[i].id = exp_elements[j].id
Pre_HasDuplicateRelationship ==
    \E i, j \in DOMAIN exp_relationships :
        i < j /\ exp_relationships[i].id = exp_relationships[j].id
Pre_HasBlankName ==
    \E i \in DOMAIN exp_elements :
        exp_elements[i].name \in {<<>>, <<" ">>, <<" ", "\f", "U+00A0">>}

\* The findings, by their messages
Finding_Empty(m) == m = <<"Model contains no elements">>
Finding_Orphaned(m) ==
    Len(m) >= 3 /\ m[1] = "Found " /\ m[3] = " orphaned relationships: "
Finding_DuplicateElement(m) == Len(m) >= 1 /\ m[1] = "Duplicate element IDs found: "
Finding_DuplicateRelationship(m) ==
    Len(m) >= 1 /\ m[1] = "Duplicate relationship IDs found: "
Finding_BlankName(m) ==
    Len(m) = 3 /\ m[1] = "Found " /\ m[3] = " elements without names"

Pre_InWarnings(Finding(_)) ==
    \E i \in DOMAIN exp_result.warnings : Finding(exp_result.warnings[i])
Pre_InErrors(Finding(_)) ==
    \E i \in DOMAIN exp_result.errors : Finding(exp_result.errors[i])

\* The checks have run
Pre_Checked ==
    /\ exp_options.validateModel
    /\ exp_pc \notin {"unused", "unconstructed", "idle", "step1"}

\* exportModel threw in step 1
Pre_Blocked ==
    exp_pc \in {"thrown", "finished"} /\ exp_trace = <<"validateModelInputs">>

\* C2 as it stands: without strictValidation every finding is a warning and
\* none an error; with it the orphaned relationships and the duplicate ids
\* are errors, the empty element set and the blank names are warnings and
\* never block the export.  The code does not do this: a duplicate id is an
\* error without strictValidation as well.
C2_Original ==
    Pre_Checked =>
        IF ~exp_options.strictValidation
        THEN /\ Pre_InWarnings(Finding_Empty) <=> Pre_IsEmpty
             /\ Pre_InWarnings(Finding_Orphaned) <=> Pre_HasOrphan
             /\ Pre_InWarnings(Finding_DuplicateElement) <=> Pre_HasDuplicateElement
             /\ Pre_InWarnings(Finding_DuplicateRelationship)
                    <=> Pre_HasDuplicateRelationship
             /\ Pre_InWarnings(Finding_BlankName) <=> Pre_HasBlankName
             /\ exp_result.errors = <<>> \/ exp_pc \in {"thrown", "finished"}
             /\ ~Pre_Blocked
        ELSE /\ Pre_InErrors(Finding_Orphaned) <=> Pre_HasOrphan
             /\ Pre_InErrors(Finding_DuplicateElement) <=> Pre_HasDuplicateElement
             /\ Pre_InErrors(Finding_DuplicateRelationship)
                    <=> Pre_HasDuplicateRelationship
             /\ Pre_InWarnings(Finding_Empty) <=> Pre_IsEmpty
             /\ Pre_InWarnings(Finding_BlankName) <=> Pre_HasBlankName
             /\ Pre_Blocked <=> (Pre_HasOrphan \/ Pre_HasDuplicateElement
                                 \/ Pre_HasDuplicateRelationship)

\* What validateModelInputs does: a blank name is always a warning; a
\* duplicate element id and a duplicate relationship id are always errors,
\* with or without strictValidation; an empty element set and an orphaned
\* relationship are warnings without strictValidation and errors with it.
\* exportModel is blocked exactly when strictValidation is set and there is
\* an error, the empty element set included.
C2_AsCoded ==
    Pre_Checked =>
        LET strict == exp_options.strictValidation IN
        /\ Pre_InWarnings(Finding_BlankName) <=> Pre_HasBlankName
        /\ ~Pre_InErrors(Finding_BlankName)
        /\ Pre_InErrors(Finding_DuplicateElement) <=> Pre_HasDuplicateElement
        /\ ~Pre_InWarnings(Finding_DuplicateElement)
        /\ Pre_InErrors(Finding_DuplicateRelationship) <=> Pre_HasDuplicateRelationship
        /\ ~Pre_InWarnings(Finding_DuplicateRelationship)
        /\ Pre_InWarnings(Finding_Empty) <=> (Pre_IsEmpty /\ ~strict)
        /\ Pre_InErrors(Finding_Empty) <=> (Pre_IsEmpty /\ strict)
        /\ Pre_InWarnings(Finding_Orphaned) <=> (Pre_HasOrphan /\ ~strict)
        /\ Pre_InErrors(Finding_Orphaned) <=> (Pre_HasOrphan /\ strict)
        /\ Pre_Blocked <=> (strict /\ (Pre_IsEmpty \/ Pre_HasOrphan
                                       \/ Pre_HasDuplicateElement
                                       \/ Pre_HasDuplicateRelationship))

\* Without strictValidation a duplicate element id is among the errors,
\* beside an orphaned relationship and a blank name among the warnings
C2_WitnessDuplicateIsError ==
    /\ Pre_Checked
    /\ ~exp_options.strictValidation
    /\ Pre_HasDuplicateElement /\ Pre_HasOrphan /\ Pre_HasBlankName
    /\ Pre_InErrors(Finding_DuplicateElement)
    /\ Pre_InWarnings(Finding_Orphaned)
    /\ Pre_InWarnings(Finding_BlankName)
    /\ exp_pc = "step2"

\* Exactly two elements share the id x, every other id is distinct
C3_TwoShare(x) ==
    /\ \E i, j \in DOMAIN exp_elements :
          /\ i < j /\ exp_elements[i].id = x /\ exp_elements[j].id = x
          /\ \A k, l \in DOMAIN exp_elements :
                (k < l /\ exp_elements[k].id = exp_elements[l].id) => (k = i /\ l = j)
    /\ ~Pre_HasDuplicateRelationship

C3_Uniqueness(m) == Finding_DuplicateElement(m) \/ Finding_DuplicateRelationship(m)

C3_Names(x) == <<"Duplicate element IDs found: ">> \o x

C3_Count(list) == Cardinality({i \in DOMAIN list : C3_Uniqueness(list[i])})

\* C3 as it stands: one uniqueness finding, naming x; a warning without
\* strictValidation, an error with it.  The code does not do this: the
\* finding is an error without strictValidation as well.
C3_Original ==
    Pre_Checked =>
        \A x \in {exp_elements[i].id : i \in DOMAIN exp_elements} :
            C3_TwoShare(x) =>
                IF exp_options.strictValidation
                THEN /\ C3_Count(exp_result.errors) = 1
                     /\ C3_Count(exp_result.warnings) = 0
                     /\ \E i \in DOMAIN exp_result.errors :
                           exp_result.errors[i] = C3_Names(x)
                ELSE /\ C3_Count(exp_result.warnings) = 1
                     /\ C3_Count(exp_result.errors) = 0
                     /\ \E i \in DOMAIN exp_result.warnings :
                           exp_result.warnings[i] = C3_Names(x)

\* What the code does for a model in which exactly two elements share the
\* id x and every other id is distinct: exportModel with validateModel
\* reports exactly one uniqueness finding, naming x, and it is an error
\* whether strictValidation is on or off: with it off the error is in the
\* result's errors and exportModel goes on, with it on the export is blocked.
C3_AsCoded ==
    Pre_Checked =>
        \A x \in {exp_elements[i].id : i \in DOMAIN exp_elements} :
            C3_TwoShare(x) =>
                /\ C3_Count(exp_result.errors) = 1
                /\ C3_Count(exp_result.warnings) = 0
                /\ \E i \in DOMAIN exp_result.errors : exp_result.errors[i] = C3_Names(x)
                /\ Pre_Blocked <=> exp_options.strictValidation

\* Without strictValidation the one finding for the shared id a is the one
\* error of the result
C3_WitnessErrorWithoutStrict ==
    /\ Pre_Checked
    /\ C3_TwoShare(<<"a">>)
    /\ Len(exp_elements) = 3
    /\ ~exp_options.strictValidation
    /\ exp_pc = "step2"
    /\ exp_result.errors = <<C3_Names(<<"a">>)>>

\* strictValidation is on and the checks find an orphaned relationship or a
\* duplicate id
C4_Case ==
    /\ Pre_Checked
    /\ exp_options.strictValidation
    /\ Pre_HasOrphan \/ Pre_HasDuplicateElement \/ Pre_HasDuplicateRelationship

\* C4: when validateModel and strictValidation are set and the checks find
\* an orphaned relationship or a duplicate id, exportModel throws having run
\* the checks only: the configuration step has not run (the exporter is as it
\* was), the assembler has not been called, and the caller gets an error, no
\* result and no document.
C4_StrictAbortsFirst ==
    C4_Case =>
        /\ exp_pc \in {"thrown", "finished"}
        /\ exp_trace = <<"validateModelInputs">>
        /\ exp_this = exp_atCall
        /\ exp_result.xml = None
        /\ ~Val(exp_outcome).ok
        /\ exp_pc = "finished" => ~Val(exp_received).ok

C4_Witness ==
    /\ C4_Case
    /\ exp_pc = "thrown"
    /\ exp_options.colorTheme = Some(ThemeName("monochrome"))
    /\ exp_options.layoutConfiguration = Some(CompactPartial)
    /\ exp_this.colorTheme = createArchiMateTheme
    /\ exp_this.layoutEngine = DefaultLayoutConfiguration
    /\ Val(exp_outcome).message[1] = "Model validation failed: "

-----------------------------------------------------------------------------
(* C5 *)

\* The assembler threw in step 3
C5_Step3Threw ==
    /\ exp_pc \in {"thrown", "finished"}
    /\ exp_trace # <<>>
    /\ exp_trace[Len(exp_trace)] = "modelGenerator.generate"

\* The message of the error the assembler throws for the arguments
C5_Message ==
    ModelXmlGenerator_generate(exp_this.modelGenerator, exp_elements,
        exp_relationships, buildModelOptions(exp_options)).message

\* The claim C5 as it stands: an error thrown in step 3 reaches the caller
\* of exportModel, and the caller of exportToXml, as an error whose message
\* is 'Export failed: ' around the original message, and no partial document
\* is returned.
C5_Original ==
    C5_Step3Threw =>
        /\ Val(exp_outcome) = Thrown(<<"Export failed: ">> \o C5_Message)
        /\ exp_pc = "finished" =>
               Val(exp_received) = Thrown(<<"Export failed: ">> \o C5_Message)
        /\ exp_result.xml = None

-----------------------------------------------------------------------------
(* C6 *)

\* A call is over and an earlier call had the same options (the elements and
\* the relationships are those of every call)
C6_Compared ==
    /\ exp_kept # None
    /\ exp_pc \in {"returned", "thrown"}
    /\ Val(exp_kept).options = exp_options

C6_SameSetting(a, b) ==
    a.colorTheme = b.colorTheme /\ a.layoutEngine = b.layoutEngine

\* The claim C6 as it stands: two calls with equal arguments have equal
\* outcomes, whatever was called on the exporter in between and whichever
\* exporter they are made on.
C6_Original == C6_Compared => Val(exp_outcome) = Val(exp_kept).outcome

\* C6, amended: two exportModel calls given equal elements, relationships
\* and options have equal outcomes if the exporters they are made on have the
\* same theme and the same layout configuration when the calls are made, or
\* if the options give both a theme and a layout configuration.
C6_Amended ==
    (/\ C6_Compared
     /\ \/ C6_SameSetting(exp_atCall, Val(exp_kept).atCall)
        \/ exp_options.colorTheme # None /\ exp_options.layoutConfiguration # None)
    => Val(exp_outcome) = Val(exp_kept).outcome

C6_Witness ==
    /\ C6_Compared
    /\ C6_SameSetting(exp_atCall, Val(exp_kept).atCall)
    /\ exp_atCall.layoutEngine = LayoutEngine(CompactPartial)
    /\ exp_options.includeViews = Some(TRUE)
    /\ exp_options.layoutConfiguration = None
    /\ exp_calls = 2
    /\ Val(exp_outcome).ok
    /\ Val(exp_outcome).value.statistics # None
    /\ Val(Val(exp_outcome).value.statistics).views # None

-----------------------------------------------------------------------------
(* C7, C8 *)

\* C7: generateLayout is a pure function of its arguments: a call on an engine
\* returns the positions, dimensions and viewport size that an earlier call
\* on the same engine returned for equal arguments, whatever was called on the
\* engine in between.
C7_LayoutIsPure ==
    (/\ lay_pc = "done"
     /\ IsSome(lay_kept)
     /\ Val(lay_kept).elements = lay_elements
     /\ Val(lay_kept).relationships = lay_relationships)
    => Val(lay_result) = Val(lay_kept).result

\* C7 witness: the third call on an engine repeats the arguments of a kept
\* earlier call and lays out an element without a size of its type.
C7_Witness ==
    /\ lay_pc = "done"
    /\ lay_calls >= 3
    /\ IsSome(lay_kept)
    /\ Val(lay_kept).elements = lay_elements
    /\ Val(lay_kept).relationships = lay_relationships
    /\ \E i \in DOMAIN lay_elements : lay_elements[i].type = "Goal"
    /\ Val(lay_result) = Val(lay_kept).result

LayerIndex(layer) ==
    CHOOSE i \in DOMAIN CanonicalLayerOrder : CanonicalLayerOrder[i] = layer

DistinctIds(elements) ==
    \A i, j \in DOMAIN elements : i # j => elements[i].id # elements[j].id

\* Each element of an earlier canonical layer has a row offset strictly less
\* than each element of a later one
C8_RowsFollowLayers ==
    LET positions == Val(lay_result).elementPositions IN
    \A i, j \in DOMAIN lay_elements :
        LET a == lay_elements[i]
            b == lay_elements[j]
        IN LayerIndex(a.layer) < LayerIndex(b.layer) =>
              /\ a.id \in DOMAIN positions
              /\ b.id \in DOMAIN positions
              /\ positions[a.id].y < positions[b.id].y

\* C8 as claimed: in every layout result, an element whose layer precedes
\* another element's layer in the canonical order has the strictly smaller
\* row offset.
C8_Original == lay_pc = "done" => C8_RowsFollowLayers

\* C8 as amended: the same, for the layout results of an engine whose layer
\* order is the canonical one and whose layerVerticalSpacing is positive, and
\* for element lists with pairwise distinct ids.
C8_Amended ==
    (/\ lay_pc = "done"
     /\ lay_config.layerOrder = CanonicalLayerOrder
     /\ lay_config.layerVerticalSpacing > 0
     /\ DistinctIds(lay_elements))
    => C8_RowsFollowLayers

\* C8 witness: three elements with distinct ids in two layers, given with the
\* later layer first, are laid out on the canonical layer order.
C8_Witness ==
    /\ lay_pc = "done"
    /\ lay_config.layerOrder = CanonicalLayerOrder
    /\ DistinctIds(lay_elements)
    /\ Len(lay_elements) >= 2
    /\ LayerIndex(lay_elements[1].layer) > LayerIndex(lay_elements[2].layer)
    /\ C8_RowsFollowLayers

-----------------------------------------------------------------------------
(* C9 *)

\* The text of an XML document between the markup piece open and the next
\* markup piece close
C9_Between(xml, open, close) ==
    LET from == CHOOSE i \in DOMAIN xml : xml[i] = open
        to == CHOOSE j \in DOMAIN xml :
                  /\ j > from /\ xml[j] = close
                  /\ \A k \in (from + 1)..(j - 1) : xml[k] # close
    IN SubSeq(xml, from + 1, to - 1)

\* The entities the generators emit, and the character each stands for
C9_Entities ==
    {<<Entity_amp, "&">>, <<Entity_lt, "<">>, <<Entity_gt, ">">>,
     <<Entity_quot, "\"">>, <<Entity_39, "'">>}

\* What an XML parser reads from character data: an entity stands for its
\* character, an ampersand that begins no entity is malformed
RECURSIVE C9_Decode(_)
C9_Decode(text) ==
    IF text = <<>> THEN <<>>
    ELSE IF Head(text) = "&"
         THEN IF \E e \in C9_Entities : HasAt(text, 1, e[1])
              THEN LET e == CHOOSE x \in C9_Entities : HasAt(text, 1, x[1])
                   IN <<e[2]>> \o C9_Decode(SubSeq(text, Len(e[1]) + 1, Len(text)))
              ELSE <<"malformed">>
         ELSE <<Head(text)>> \o C9_Decode(Tail(text))

C9_Faithful(escaped, s) ==
    /\ \A i \in DOMAIN escaped : escaped[i] \notin {"<", ">", "\"", "'"}
    /\ \A i \in DOMAIN escaped :
          escaped[i] = "&" => \E e \in C9_Entities : HasAt(escaped, i, e[1])
    /\ C9_Decode(escaped) = s

C9_ElementName == C9_Between(esc_element, "\"><name>", "</name><documentation>")
C9_RelationshipName == C9_Between(esc_relationship, "\"><name>", "</name></relationship>")

\* C9: the name an element or a relationship is emitted with holds no raw
\* <, >, " or ', each of its ampersands begins one of the five entities
\* (&amp; &lt; &gt; &quot; &#39;), and decoding the entities gives back
\* exactly the name that went in; so for the name A & B <C> "D" 'E'.
C9_EscapingIsFaithful ==
    /\ esc_pc \in {"element", "done"} => C9_Faithful(C9_ElementName, esc_name)
    /\ esc_pc = "done" =>
           C9_Faithful(C9_RelationshipName,
                       esc_name \o <<" ", "triggers", " ">> \o NameCustomer)

C9_Witness ==
    /\ esc_pc = "done"
    /\ esc_name = NameAllSpecials
    /\ C9_ElementName =
           <<"A", " ">> \o Entity_amp \o <<" ", "B", " ">> \o Entity_lt \o <<"C">>
           \o Entity_gt \o <<" ">> \o Entity_quot \o <<"D">> \o Entity_quot
           \o <<" ">> \o Entity_39 \o <<"E">> \o Entity_39
    /\ C9_Decode(C9_ElementName) = NameAllSpecials

-----------------------------------------------------------------------------
(* C10 *)

\* The scenario: a (BusinessActor, 'Customer'), b (BusinessProcess, 'Order
\* Processing'), r1 from a to b, the default layout configuration
C10_Scenario ==
    /\ view_pc = "done"
    /\ view_elements = <<BusinessActor(<<"a">>, NameCustomer),
                         BusinessProcess(<<"b">>, NameOrderProcessing)>>
    /\ view_relationships = <<Relationship(<<"r1">>, <<"a">>, <<"b">>, "Triggering")>>
    /\ view_this.layoutEngine = DefaultLayoutConfiguration

C10_View == Val(view_result).value

C10_TwoShapesOneConnection ==
    /\ Val(view_result).ok
    /\ Len(C10_View.visualElements) = 2
    /\ Len(C10_View.visualConnections) = 1

\* The claim as it stands: two visual elements, one connection, and the
\* connection has no bend point.
C10_Original ==
    C10_Scenario =>
        /\ C10_TwoShapesOneConnection
        /\ C10_View.visualConnections[1].bendpoints = None

\* C10, amended: in the scenario the view has exactly two visual elements and
\* exactly one visual connection; the shapes are 140x60 at (60,60) and 160x60
\* at (380,60), their centres (130,90) and (460,90) are 330 apart, which is
\* more than 200, and the connection has exactly one bend point, the
\* midpoint (295,90).
C10_Amended ==
    C10_Scenario =>
        /\ C10_TwoShapesOneConnection
        /\ LET va == C10_View.visualElements[1]
               vb == C10_View.visualElements[2]
           IN /\ <<va.x, va.y, va.width, va.height>> = <<60, 60, 140, 60>>
              /\ <<vb.x, vb.y, vb.width, vb.height>> = <<380, 60, 160, 60>>
              /\ DoubledCenter(va) = [x |-> 2 * 130, y |-> 2 * 90]
              /\ DoubledCenter(vb) = [x |-> 2 * 460, y |-> 2 * 90]
        /\ C10_View.visualConnections[1].bendpoints =
               Some(<<[xQuarters |-> 4 * 295, yQuarters |-> 4 * 90]>>)

C10_Witness ==
    /\ C10_Scenario
    /\ C10_View.visualConnections[1].source = <<"visual-", "a">>
    /\ C10_View.visualConnections[1].target = <<"visual-", "b">>
    /\ C10_View.visualConnections[1].bendpoints # None

-----------------------------------------------------------------------------
(* C11 *)

\* The shape of an element in a returned view: the one the connections of
\* the element are attached to
C11_Shape(view, elementRef) == Val(VisualOf(view.visualElements, elementRef))

\* Four times the squared distance between the centres of two shapes
\* (the centre of a shape is (x + width/2, y + height/2))
C11_Distance2x4(source, target) ==
    LET dx2 == (2 * target.x + target.width) - (2 * source.x + source.width)
        dy2 == (2 * target.y + target.height) - (2 * source.y + source.height)
    IN dx2 * dx2 + dy2 * dy2

\* The midpoint of the two centres, in quarters
C11_Midpoint(source, target) ==
    [xQuarters |-> (2 * source.x + source.width) + (2 * target.x + target.width),
     yQuarters |-> (2 * source.y + source.height) + (2 * target.y + target.height)]

C11_Connection(view, i) ==
    LET relationship == view_relationships[i]
        source == C11_Shape(view, relationship.source)
        target == C11_Shape(view, relationship.target)
        bendpoints == view.visualConnections[i].bendpoints
    IN IF C11_Distance2x4(source, target) > 4 * 200 * 200
       THEN bendpoints = Some(<<C11_Midpoint(source, target)>>)
       ELSE bendpoints = None

\* C11: in a view that generateViewXml returns, every visual connection has
\* exactly one bend point, the midpoint of the centres of its source and
\* target shapes, when the centres are more than 200 apart, and no bend
\* point when they are 200 apart or less (a relationship from an element to
\* itself included).
C11_BendpointRule ==
    (view_pc = "done" /\ Val(view_result).ok) =>
        \A i \in DOMAIN Val(view_result).value.visualConnections :
            C11_Connection(Val(view_result).value, i)

\* A view with a connection of more than 200 that has its bend point and a
\* connection from an element to itself that has none
C11_Witness ==
    /\ view_pc = "done" /\ Val(view_result).ok
    /\ Len(Val(view_result).value.visualConnections) = 2
    /\ view_relationships[2].source = view_relationships[2].target
    /\ Val(view_result).value.visualConnections[1].bendpoints # None
    /\ Val(view_result).value.visualConnections[2].bendpoints = None

\* Two distinct shapes whose centres are 200 apart or less
C11_ShortBetweenTwo ==
    /\ view_pc = "done" /\ Val(view_result).ok
    /\ Len(Val(view_result).value.visualConnections) >= 1
    /\ view_relationships[1].source # view_relationships[1].target
    /\ Val(view_result).value.visualConnections[1].bendpoints = None

-----------------------------------------------------------------------------
(* C12 *)

C12_ElementIds == {view_elements[i].id : i \in DOMAIN view_elements}

\* The ids the layout result has a position for
C12_LaidOut ==
    DOMAIN generateLayout(view_this.layoutEngine, view_elements,
                          view_relationships).elementPositions

\* The relationships with an end that is not the id of an element of the list
C12_Dangling ==
    {i \in DOMAIN view_relationships :
        \/ view_relationships[i].source \notin C12_ElementIds
        \/ view_relationships[i].target \notin C12_ElementIds}

C12_FirstDangling == CHOOSE i \in C12_Dangling : \A j \in C12_Dangling : i <= j

\* The relationships with an end that the layout result has no position for
C12_EndNotLaidOut ==
    {i \in DOMAIN view_relationships :
        \/ view_relationships[i].source \notin C12_LaidOut
        \/ view_relationships[i].target \notin C12_LaidOut}

\* A returned view has no connection with a missing end
C12_NoHalfConnection ==
    Val(view_result).ok =>
        LET view == Val(view_result).value
            shapeIds == {view.visualElements[i].id : i \in DOMAIN view.visualElements}
        IN \A i \in DOMAIN view.visualConnections :
              /\ view.visualConnections[i].source \in shapeIds
              /\ view.visualConnections[i].target \in shapeIds

\* The claim as it stands: generateViewXml raises whenever a relationship has
\* an end that is not in the element list or that was left out of the layout
\* result, and never emits a connection with a missing end.
C12_Original ==
    view_pc = "done" =>
        /\ (C12_Dangling # {} \/ C12_EndNotLaidOut # {}) => ~Val(view_result).ok
        /\ C12_NoHalfConnection

\* C12, amended: generateViewXml raises, and returns no view, exactly when
\* some relationship's source or target is not the id of an element of the
\* list; the error names the first such relationship.  An element that the
\* layout result has no position for still gets a shape, at (100,100) and
\* 120 by 55, and its connections are emitted.  A returned view has no
\* connection with a missing end.
C12_Amended ==
    view_pc = "done" =>
        /\ ~Val(view_result).ok <=> C12_Dangling # {}
        /\ C12_Dangling # {} =>
               Val(view_result) =
                   Thrown(<<"Missing visual elements for relationship ">>
                          \o view_relationships[C12_FirstDangling].id)
        /\ Val(view_result).ok =>
               LET view == Val(view_result).value
               IN /\ Len(view.visualElements) = Len(view_elements)
                  /\ Len(view.visualConnections) = Len(view_relationships)
                  /\ \A i \in DOMAIN view_elements :
                        view_elements[i].id \notin C12_LaidOut =>
                            /\ view.visualElements[i].x = 100
                            /\ view.visualElements[i].y = 100
                            /\ view.visualElements[i].width = 120
                            /\ view.visualElements[i].height = 55
        /\ C12_NoHalfConnection

\* A view is returned with a connection to an element that the layout left out
C12_Witness ==
    /\ view_pc = "done" /\ Val(view_result).ok
    /\ C12_Dangling = {} /\ C12_EndNotLaidOut # {}
    /\ Len(Val(view_result).value.visualConnections) >= 1

\* generateViewXml has raised for a relationship whose target is no element
C12_WitnessRaised ==
    /\ view_pc = "done" /\ ~Val(view_result).ok
    /\ C12_Dangling # {}

-----------------------------------------------------------------------------
(* C13 *)

C13_ElementIds == {Val(gen_elements)[i].id : i \in DOMAIN Val(gen_elements)}

C13_IsDangling(relationship) ==
    relationship.source \notin C13_ElementIds \/ relationship.target \notin C13_ElementIds

\* The place of a type in the order the grouped output follows
C13_TypeRank(type) == CHOOSE k \in DOMAIN typeOrder : typeOrder[k] = type

\* i-th relationship is emitted before the j-th
C13_EmittedBefore(i, j) ==
    IF gen_options.groupByType
    THEN \/ C13_TypeRank(gen_relationships[i].type) < C13_TypeRank(gen_relationships[j].type)
         \/ /\ gen_relationships[i].type = gen_relationships[j].type
            /\ i < j
    ELSE i < j

C13_Dangling == {i \in DOMAIN gen_relationships : C13_IsDangling(gen_relationships[i])}

C13_FirstDangling ==
    CHOOSE i \in C13_Dangling : \A j \in C13_Dangling \ {i} : C13_EmittedBefore(i, j)

\* The number of relationship fragments in a returned string
C13_Fragments(xml) ==
    Cardinality({k \in DOMAIN xml : xml[k] = "<relationship identifier=\""})

\* C13: generateRelationships called with validateReferences and an element
\* list raises at the first relationship, in emission order, whose source or
\* target is not the id of a supplied element, and returns nothing; when
\* every source and target resolves it returns a string with one fragment
\* per relationship.
C13_RaisesAtFirstDangling ==
    (gen_pc = "done" /\ gen_options.validateReferences /\ IsSome(gen_elements)) =>
        IF C13_Dangling # {}
        THEN /\ ~Val(gen_result).ok
             /\ SubSeq(Val(gen_result).message, 1, 2) =
                    <<"Relationship ">> \o gen_relationships[C13_FirstDangling].id
        ELSE /\ Val(gen_result).ok
             /\ C13_Fragments(Val(gen_result).value) = Len(gen_relationships)

\* A grouped call in which the first dangling relationship of the emission
\* order is not the first one of the list, and the call raised for it
C13_Witness ==
    /\ gen_pc = "done" /\ gen_options.validateReferences /\ IsSome(gen_elements)
    /\ gen_options.groupByType
    /\ Cardinality(C13_Dangling) = 2
    /\ C13_FirstDangling # CHOOSE i \in C13_Dangling : \A j \in C13_Dangling : i <= j
    /\ ~Val(gen_result).ok

\* A call in which every reference resolves, with its fragments
C13_WitnessResolved ==
    /\ gen_pc = "done" /\ gen_options.validateReferences /\ IsSome(gen_elements)
    /\ Len(gen_relationships) = 2 /\ C13_Dangling = {}
    /\ Val(gen_result).ok

-----------------------------------------------------------------------------
(* C14 *)

\* The preset table of a name
C14_Preset(name) ==
    CASE name = "archimate" -> createArchiMateTheme
      [] name = "monochrome" -> createMonochromeTheme
      [] name = "high-contrast" -> createHighContrastTheme

C14_Known == {"archimate", "monochrome", "high-contrast"}

\* The entry point has dealt with the name it was given
C14_Resolved ==
    \/ thm_entry \in {"createXmlExporter", "setColorTheme"}
    \/ thm_entry = "exportModel" /\ exp_pc \in {"returned", "thrown"}

\* What the entry point returned or threw
C14_Outcome == IF thm_entry = "exportModel" THEN Val(exp_outcome) ELSE Val(thm_outcome)

C14_UnknownThemeError ==
    /\ ~C14_Outcome.ok
    /\ C14_Outcome.message = <<"Unknown color theme: ", thm_name>>

C14_Selected ==
    /\ C14_Outcome.ok
    /\ exp_this.colorTheme = C14_Preset(thm_name)
    /\ exp_this.viewGenerator.colorTheme = C14_Preset(thm_name)

\* C14, the claim as it stands: on setColorTheme, on the colorTheme option of
\* exportModel and on createXmlExporter alike, the names 'archimate',
\* 'monochrome' and 'high-contrast' select their preset tables and any other
\* name fails with the unknown-theme error.
C14_Original ==
    C14_Resolved =>
        IF thm_name \in C14_Known THEN C14_Selected ELSE C14_UnknownThemeError

\* The same statement for setColorTheme and the option of exportModel only
C14_OnExporter ==
    (C14_Resolved /\ thm_entry # "createXmlExporter") =>
        IF thm_name \in C14_Known THEN C14_Selected ELSE C14_UnknownThemeError

\* createXmlExporter takes every name for the ArchiMate theme and never fails
C14_CreateIgnoresName ==
    thm_entry = "createXmlExporter" =>
        /\ C14_Outcome.ok
        /\ exp_this.colorTheme = createArchiMateTheme

-----------------------------------------------------------------------------
(* C15 *)

\* The layer ElementType lists a type under
C15_LayerOf(type) ==
    CASE type \in MotivationTypes \cup {"Meaning", "Value"} -> Layer_MOTIVATION
      [] type \in StrategyTypes -> Layer_STRATEGY
      [] type \in BusinessTypes -> Layer_BUSINESS
      [] type \in ApplicationTypes -> Layer_APPLICATION
      [] type \in TechnologyTypes -> Layer_TECHNOLOGY
      [] type \in PhysicalTypes \cup {"Location"} -> Layer_PHYSICAL
      [] type \in ImplementationTypes -> Layer_IMPLEMENTATION

C15_Created ==
    /\ Val(fac_result).ok
    /\ Val(fac_result).value =
           [id |-> fac_id, name |-> fac_name, type |-> fac_type,
            layer |-> C15_LayerOf(fac_type)]

C15_Unknown ==
    /\ ~Val(fac_result).ok
    /\ Val(fac_result).message = <<"Unknown element type: ", fac_type>>

\* C15, the claim as it stands: ElementFactory.create(type, id, name) returns,
\* for every type of the ElementType vocabulary, an element with the id, the
\* name and the type of the arguments and the layer of the type, and raises
\* 'Unknown element type' only for a type outside the vocabulary.
C15_Original ==
    fac_pc = "done" =>
        IF fac_type \in ElementTypes THEN C15_Created ELSE C15_Unknown

\* The same statement with the one type the switch has no case for set apart
C15_AllButValueStream ==
    fac_pc = "done" =>
        IF fac_type \in ElementTypes \ {"ValueStream"} THEN C15_Created ELSE C15_Unknown

-----------------------------------------------------------------------------
(* C16 *)

\* exportModel has returned a result with statistics
C16_WithStatistics == exp_pc = "returned" /\ exp_options.includeStatistics

C16_ViewProduced == Val(exp_result.xml).view # None

C16_ViewsEntry == Val(exp_result.statistics).views # None

\* C16, the claim as it stands: when includeStatistics is set, the statistics
\* exportModel returns have a views entry in exactly the calls in which a
\* view block was produced, the calls that leave includeViews unspecified
\* included and the calls with includeViews false excluded.
C16_Original ==
    C16_WithStatistics => (C16_ViewsEntry <=> C16_ViewProduced)

\* What the exporter does: the view block is produced unless includeViews is
\* false, the views entry is there only when includeViews is true
C16_ViewsEntryOnlyWhenAsked ==
    C16_WithStatistics =>
        /\ C16_ViewProduced <=> exp_options.includeViews # Some(FALSE)
        /\ C16_ViewsEntry <=> exp_options.includeViews = Some(TRUE)
        /\ C16_ViewsEntry =>
               /\ Val(Val(exp_result.statistics).views).elementCount = Len(exp_elements)
               /\ Val(Val(exp_result.statistics).views).relationshipCount =
                      Len(exp_relationships)

-----------------------------------------------------------------------------
(* C17 *)

\* The steps of validateXmlString in their order
C17_Steps ==
    <<"wellFormedness", "parse", "structure", "namespace", "uniqueness",
      "references", "types">>

C17_RanInOrder ==
    /\ Len(xml_trace) <= Len(C17_Steps)
    /\ xml_trace = SubSeq(C17_Steps, 1, Len(xml_trace))

C17_WellFormedness == validateWellFormedness(xml_xml)

\* The findings of the checks that follow the parsing, in their order
C17_Later ==
    <<validateStructure(xml_parsed),
      validateNamespace(Val(xml_parsed)),
      validateElementUniqueness(Val(xml_parsed)),
      XmlValidator_validateRelationshipReferences(Val(xml_parsed)),
      validateArchiMateTypes(Val(xml_parsed))>>

C17_AllErrors ==
    C17_WellFormedness.errors \o C17_Later[1].errors \o C17_Later[2].errors
    \o C17_Later[3].errors \o C17_Later[4].errors \o C17_Later[5].errors

C17_AllWarnings ==
    C17_WellFormedness.warnings \o C17_Later[1].warnings \o C17_Later[2].warnings
    \o C17_Later[3].warnings \o C17_Later[4].warnings \o C17_Later[5].warnings

\* The run that was stopped by the well-formedness check
C17_StoppedAtWellFormedness ==
    /\ xml_trace = <<"wellFormedness">>
    /\ xml_result = [isValid |-> FALSE,
                     errors |-> C17_WellFormedness.errors,
                     warnings |-> C17_WellFormedness.warnings]

\* The run that was stopped because the text could not be parsed
C17_StoppedAtParse ==
    /\ xml_trace = <<"wellFormedness", "parse">>
    /\ xml_result = [isValid |-> FALSE,
                     errors |-> <<XmlError("structure",
                                           <<"Failed to parse XML document">>, None)>>,
                     warnings |-> C17_WellFormedness.warnings]

\* The run in which every check ran
C17_RanAll ==
    /\ xml_trace = C17_Steps
    /\ xml_result = [isValid |-> (C17_AllErrors = <<>>),
                     errors |-> C17_AllErrors,
                     warnings |-> C17_AllWarnings]

C17_WitnessAnyPrefix ==
    /\ xml_pc = "done"
    /\ xml_trace = C17_Steps
    /\ Len(Val(xml_parsed)) = 2
    /\ getAttribute(Val(xml_parsed)[2], "xsi:type")
          = Some(<<"xsi", ":", "foo", ":", "BusinessActor">>)
    /\ C17_Later[5].errors = <<>>
    /\ xml_result.errors = C17_AllErrors

\* A finished run on a document whose one element has a prefixed type that
\* is no element type: the type check adds its error, naming the type as
\* written
C17_WitnessPrefixedUnknown ==
    /\ xml_pc = "done"
    /\ xml_trace = C17_Steps
    /\ Len(Val(xml_parsed)) = 2
    /\ C17_Later[5].errors
          = <<XmlError("schema", <<"Invalid element type: ", "foo", ":", "Gadget">>,
                       Some(<<"f">>))>>

\* A finished run that the parser stopped
C17_WitnessStoppedAtParse ==
    /\ xml_pc = "done"
    /\ C17_WellFormedness.errors = <<>>
    /\ ~IsSome(xml_parsed)
    /\ Len(xml_trace) = 2

-----------------------------------------------------------------------------
(* C18 *)

\* The uniqueness check has run on a parsed document
C18_Checked == Includes(xml_trace, "uniqueness")

\* The positions of the nodes that carry v as their identifier
C18_Carriers(v) ==
    {k \in DOMAIN Val(xml_parsed) : IdentifierOrId(Val(xml_parsed)[k]) = Some(v)}

\* The identifier values of the document
C18_Values ==
    {Val(IdentifierOrId(Val(xml_parsed)[k])) :
        k \in {k \in DOMAIN Val(xml_parsed) : Truthy(IdentifierOrId(Val(xml_parsed)[k]))}}

\* The positions of the uniqueness errors for v in the result
C18_ErrorsFor(v) ==
    {j \in DOMAIN xml_result.errors :
        /\ xml_result.errors[j].type = "uniqueness"
        /\ xml_result.errors[j].message = <<"Duplicate element identifier: ">> \o v}

C18_UniquenessErrors ==
    {j \in DOMAIN xml_result.errors : xml_result.errors[j].type = "uniqueness"}

\* C18 as stated: a uniqueness error is reported for a value exactly when
\* at least two distinct nodes carry it as their identifier, once per value,
\* and a document whose identifier-bearing nodes all differ has none.
C18_Original ==
    C18_Checked =>
        /\ \A v \in C18_Values :
              Cardinality(C18_ErrorsFor(v)) =
                  IF Cardinality(C18_Carriers(v)) >= 2 THEN 1 ELSE 0
        /\ Cardinality(C18_UniquenessErrors) =
               Cardinality({v \in C18_Values : Cardinality(C18_Carriers(v)) >= 2})

\* A node has both an identifier and an id attribute
C18_HasBoth(node) ==
    Truthy(getAttribute(node, "identifier")) /\ Truthy(getAttribute(node, "id"))

\* What the check does: a node with both attributes counts twice
C18_Listings(v) ==
    Cardinality(C18_Carriers(v))
    + Cardinality({k \in C18_Carriers(v) : C18_HasBoth(Val(xml_parsed)[k])})

C18_OnePerValueListedTwice ==
    C18_Checked =>
        /\ \A v \in C18_Values :
              Cardinality(C18_ErrorsFor(v)) = IF C18_Listings(v) >= 2 THEN 1 ELSE 0
        /\ Cardinality(C18_UniquenessErrors) =
               Cardinality({v \in C18_Values : C18_Listings(v) >= 2})

\* Three nodes share one value and one error is reported for it
C18_WitnessShared ==
    /\ C18_Checked
    /\ \E v \in C18_Values :
          Cardinality(C18_Carriers(v)) = 3 /\ Cardinality(C18_ErrorsFor(v)) = 1

-----------------------------------------------------------------------------
(* C19 *)

\* The reference check has run on a parsed document
C19_Checked == Includes(xml_trace, "references")

C19_Relationships == RelationshipNodes(Val(xml_parsed))

C19_Endpoints == {"source", "target"}

C19_MessageHead(endpoint) ==
    IF endpoint = "source"
    THEN "Relationship references unknown source element: "
    ELSE "Relationship references unknown target element: "

\* The endpoint is the identifier of a non-relationship node
C19_Resolves(relationship, endpoint) ==
    /\ IsSome(getAttribute(relationship, endpoint))
    /\ Val(getAttribute(relationship, endpoint)) \in NonRelationshipIds(Val(xml_parsed))

\* The endpoint is given and is not the identifier of a non-relationship node
C19_GivenAndUnresolved(relationship, endpoint) ==
    /\ Truthy(getAttribute(relationship, endpoint))
    /\ Val(getAttribute(relationship, endpoint)) \notin NonRelationshipIds(Val(xml_parsed))

\* The reference errors of the result about this endpoint of this relationship
C19_ErrorsFor(relationship, endpoint) ==
    {j \in DOMAIN xml_result.errors :
        /\ xml_result.errors[j].type = "reference"
        /\ xml_result.errors[j].element = IdentifierOr(relationship, "unnamed relationship")
        /\ Head(xml_result.errors[j].message) = C19_MessageHead(endpoint)}

C19_ReferenceErrors ==
    {j \in DOMAIN xml_result.errors : xml_result.errors[j].type = "reference"}

\* C19 as stated: a reference error is reported for a relationship node
\* exactly when its source, respectively its target, is not the identifier
\* of a non-relationship node, one error per unresolved endpoint.
C19_Original ==
    C19_Checked =>
        /\ \A k \in DOMAIN C19_Relationships : \A endpoint \in C19_Endpoints :
              (C19_ErrorsFor(C19_Relationships[k], endpoint) # {})
                  <=> ~C19_Resolves(C19_Relationships[k], endpoint)
        /\ Cardinality(C19_ReferenceErrors) =
               Cardinality({pair \in (DOMAIN C19_Relationships) \X C19_Endpoints :
                               ~C19_Resolves(C19_Relationships[pair[1]], pair[2])})

\* What the check does: an endpoint that is absent or empty is passed over
C19_OnlyGivenEndpoints ==
    C19_Checked =>
        /\ \A k \in DOMAIN C19_Relationships : \A endpoint \in C19_Endpoints :
              (C19_ErrorsFor(C19_Relationships[k], endpoint) # {})
                  <=> C19_GivenAndUnresolved(C19_Relationships[k], endpoint)
        /\ Cardinality(C19_ReferenceErrors) =
               Cardinality({pair \in (DOMAIN C19_Relationships) \X C19_Endpoints :
                               C19_GivenAndUnresolved(C19_Relationships[pair[1]], pair[2])})

\* A relationship whose target is the identifier of another relationship of
\* the document got its error
C19_WitnessRelationshipTarget ==
    /\ C19_Checked
    /\ \E k, n \in DOMAIN C19_Relationships :
          /\ getAttribute(C19_Relationships[k], "target")
                = getAttribute(C19_Relationships[n], "identifier")
          /\ C19_ErrorsFor(C19_Relationships[k], "target") # {}
          /\ C19_ErrorsFor(C19_Relationships[k], "source") = {}

-----------------------------------------------------------------------------
(* C20 *)

C20_Distinct(items) ==
    \A i, j \in DOMAIN items : i # j => items[i].id # items[j].id

C20_ElementIds == {mdl_elements[k].id : k \in DOMAIN mdl_elements}

C20_Resolved ==
    \A k \in DOMAIN mdl_relationships :
        /\ mdl_relationships[k].source \in C20_ElementIds
        /\ mdl_relationships[k].target \in C20_ElementIds

C20_Errors == Val(mdl_result).errors

\* The ids at fault: an id two elements share, an id two relationships
\* share, an endpoint that is no element's id
C20_OffendingIds ==
    {mdl_elements[i].id : i \in {i \in DOMAIN mdl_elements :
        \E j \in DOMAIN mdl_elements : i # j /\ mdl_elements[i].id = mdl_elements[j].id}}
    \cup {mdl_relationships[i].id : i \in {i \in DOMAIN mdl_relationships :
        \E j \in DOMAIN mdl_relationships :
            i # j /\ mdl_relationships[i].id = mdl_relationships[j].id}}
    \cup {mdl_relationships[i].source : i \in {i \in DOMAIN mdl_relationships :
        mdl_relationships[i].source \notin C20_ElementIds}}
    \cup {mdl_relationships[i].target : i \in {i \in DOMAIN mdl_relationships :
        mdl_relationships[i].target \notin C20_ElementIds}}

\* The error is a uniqueness or reference error whose message ends with an
\* offending id
C20_NamesOffendingId(error) ==
    /\ error.type \in {"uniqueness", "reference"}
    /\ Len(error.message) = 2
    /\ <<error.message[2]>> \in C20_OffendingIds

\* C20: validateModel returns isValid = true exactly when the element ids
\* are pairwise distinct, the relationship ids are pairwise distinct and
\* every source and target is the id of an element; otherwise isValid is
\* false and the result has a uniqueness or reference error that names the
\* offending id.
C20_ValidIffConsistent ==
    mdl_pc = "done" =>
        /\ Val(mdl_result).isValid
              <=> (C20_Distinct(mdl_elements) /\ C20_Distinct(mdl_relationships)
                   /\ C20_Resolved)
        /\ Val(mdl_result).isValid => C20_Errors = <<>>
        /\ ~Val(mdl_result).isValid =>
              /\ C20_Errors # <<>>
              /\ \A j \in DOMAIN C20_Errors : C20_NamesOffendingId(C20_Errors[j])
              /\ \A id \in C20_OffendingIds :
                    \E j \in DOMAIN C20_Errors : <<C20_Errors[j].message[2]>> = id

\* A call whose ids are all distinct and whose only fault is one target
C20_Witness ==
    /\ mdl_pc = "done"
    /\ C20_Distinct(mdl_elements) /\ C20_Distinct(mdl_relationships)
    /\ Len(mdl_elements) >= 2
    /\ \E k \in DOMAIN mdl_relationships :
          /\ mdl_relationships[k].source \in C20_ElementIds
          /\ mdl_relationships[k].target \notin C20_ElementIds
    /\ ~Val(mdl_result).isValid
    /\ Len(C20_Errors) = 1

\* A call with consistent lists, found valid
C20_WitnessValid ==
    /\ mdl_pc = "done"
    /\ Len(mdl_elements) >= 2 /\ Len(mdl_relationships) >= 1
    /\ Val(mdl_result).isValid

-----------------------------------------------------------------------------
(* C21 *)

C21_Default == lay_config = DefaultLayoutConfiguration

C21_Result == Val(lay_result)

\* The elements of the list that are in the layer
C21_Row(layer) == SelectSeq(lay_elements, LAMBDA e : e.layer = layer)

RECURSIVE C21_SumOfWidths(_)
C21_SumOfWidths(row) ==
    IF row = <<>> THEN 0
    ELSE getElementDimensions(lay_config, Head(row)).width + C21_SumOfWidths(Tail(row))

RECURSIVE C21_MaxHeight(_)
C21_MaxHeight(row) ==
    IF row = <<>> THEN 0
    ELSE Max2(getElementDimensions(lay_config, Head(row)).height, C21_MaxHeight(Tail(row)))

\* The right edge of the last element placed in a row that starts at the
\* padding: the widths and the spacing between neighbours
C21_RowExtent(row) ==
    IF row = <<>> THEN 0
    ELSE lay_config.viewportPadding + C21_SumOfWidths(row)
         + (Len(row) - 1) * lay_config.elementSpacing

RECURSIVE C21_MaxRowExtent(_)
C21_MaxRowExtent(layers) ==
    IF layers = <<>> THEN 0
    ELSE Max2(C21_RowExtent(C21_Row(Head(layers))), C21_MaxRowExtent(Tail(layers)))

\* The heights of the rows with the vertical spacing after each
RECURSIVE C21_AccumulatedRows(_)
C21_AccumulatedRows(layers) ==
    IF layers = <<>> THEN 0
    ELSE (IF C21_Row(Head(layers)) = <<>> THEN 0
          ELSE C21_MaxHeight(C21_Row(Head(layers))) + lay_config.layerVerticalSpacing)
         + C21_AccumulatedRows(Tail(layers))

C21_DistinctIds ==
    \A i, j \in DOMAIN lay_elements : i # j => lay_elements[i].id # lay_elements[j].id

\* The largest right edge among the returned boxes
C21_MaxRightEdge ==
    LET edges == {C21_Result.elementPositions[lay_elements[k].id].x
                  + C21_Result.elementDimensions[lay_elements[k].id].width :
                     k \in DOMAIN lay_elements}
    IN IF edges = {} THEN 0 ELSE CHOOSE m \in edges : \A e \in edges : e <= m

\* C21: under the default configuration generateLayout returns, for every
\* element list, a position and a dimension for every element, a viewport
\* width of the largest x-extent of the placed rows plus the padding and a
\* viewport height of the accumulated rows (from the top padding on) plus
\* the padding; for the empty list both maps are empty and the viewport is
\* padding only.
C21_TotalWithPaddedViewport ==
    (lay_pc = "done" /\ C21_Default) =>
        /\ \A k \in DOMAIN lay_elements :
              /\ lay_elements[k].id \in DOMAIN C21_Result.elementPositions
              /\ lay_elements[k].id \in DOMAIN C21_Result.elementDimensions
        /\ DOMAIN C21_Result.elementPositions
              = {lay_elements[k].id : k \in DOMAIN lay_elements}
        /\ DOMAIN C21_Result.elementDimensions
              = {lay_elements[k].id : k \in DOMAIN lay_elements}
        /\ C21_Result.viewportSize.width
              = C21_MaxRowExtent(CanonicalLayerOrder) + lay_config.viewportPadding
        /\ C21_Result.viewportSize.height
              = lay_config.viewportPadding + C21_AccumulatedRows(CanonicalLayerOrder)
                + lay_config.viewportPadding
        /\ C21_DistinctIds =>
              C21_Result.viewportSize.width
                  = C21_MaxRightEdge + lay_config.viewportPadding
        /\ lay_elements = <<>> =>
              /\ C21_Result.elementPositions = EmptyMap
              /\ C21_Result.elementDimensions = EmptyMap
              /\ C21_Result.viewportSize = [width |-> 60, height |-> 120]

\* A layout of elements of two layers under the default configuration
C21_Witness ==
    /\ lay_pc = "done" /\ C21_Default
    /\ Len(lay_elements) >= 3
    /\ \E i, j \in DOMAIN lay_elements :
          /\ lay_elements[i].layer # lay_elements[j].layer
          /\ lay_elements[i].id # lay_elements[j].id
    /\ C21_Result.viewportSize.width > 260

\* The layout of the empty list under the default configuration
C21_WitnessEmpty ==
    /\ lay_pc = "done" /\ C21_Default
    /\ lay_elements = <<>>
    /\ C21_Result.viewportSize = [width |-> 60, height |-> 120]

-----------------------------------------------------------------------------
(* C22 *)

\* C22: generateRelationshipAwareLayout returns the positions, the
\* dimensions and the viewport size that generateLayout returned for the
\* same elements and relationships on the same engine.
C22_AwareLayoutIsBasicLayout ==
    lay_pc = "aware" =>
        /\ Val(lay_kept).elements = lay_elements
        /\ Val(lay_kept).relationships = lay_relationships
        /\ Val(lay_result).elementPositions = Val(lay_kept).result.elementPositions
        /\ Val(lay_result).elementDimensions = Val(lay_kept).result.elementDimensions
        /\ Val(lay_result).viewportSize = Val(lay_kept).result.viewportSize

\* Both calls were made for two placed elements that a relationship connects
C22_Witness ==
    /\ lay_pc = "aware"
    /\ Len(lay_relationships) >= 1
    /\ lay_relationships[1].source \in DOMAIN Val(lay_result).elementPositions
    /\ lay_relationships[1].target \in DOMAIN Val(lay_result).elementPositions
    /\ Len(lay_elements) >= 2

-----------------------------------------------------------------------------
(* C23 *)

\* A template with every placeholder filled with its own field's value, in
\* one pass: values is a function from the placeholders to the values
RECURSIVE C23_Filled(_, _)
C23_Filled(template, values) ==
    IF template = <<>> THEN <<>>
    ELSE (IF Head(template) \in DOMAIN values THEN values[Head(template)]
          ELSE <<Head(template)>>)
         \o C23_Filled(Tail(template), values)

C23_ElementValues ==
    ("{{ELEMENT_TYPE}}" :> <<frg_element.type>>)
    @@ ("{{ELEMENT_NAME}}" :> ElementXmlGenerator_escapeXml(frg_element.name))
    @@ ("{{ELEMENT_ID}}" :> ElementXmlGenerator_escapeXml(frg_element.id))
    @@ ("{{ELEMENT_DOCUMENTATION}}" :>
            ElementXmlGenerator_escapeXml(<<frg_element.type, " element: ">>
                                          \o frg_element.name))

C23_RelationshipValues ==
    ("{{RELATIONSHIP_TYPE}}" :> <<frg_relationship.type>>)
    @@ ("{{RELATIONSHIP_NAME}}" :>
            IF frg_includeNames THEN <<frg_relationship.type, " relationship">>
            ELSE <<>>)
    @@ ("{{RELATIONSHIP_ID}}" :> RelationshipXmlGenerator_escapeXml(frg_relationship.id))
    @@ ("{{SOURCE_ID}}" :> RelationshipXmlGenerator_escapeXml(frg_relationship.source))
    @@ ("{{TARGET_ID}}" :> RelationshipXmlGenerator_escapeXml(frg_relationship.target))

\* The value holds neither the text of a placeholder nor a $
C23_Plain(value) ==
    \A i \in DOMAIN value :
        /\ value[i] \notin DOMAIN C23_ElementValues
        /\ value[i] \notin DOMAIN C23_RelationshipValues
        /\ value[i] # "$"

\* C23 as stated: every fragment of generateElement and generateRelationship
\* carries each field equal to the escaped input value of that field, also
\* when a value holds the text of a placeholder: the token in the value is
\* emitted literally and every placeholder is filled with its own value.
C23_Original ==
    /\ frg_pc \in {"element", "done"} =>
           frg_elementXml = C23_Filled(ElementTemplate, C23_ElementValues)
    /\ frg_pc = "done" =>
           frg_relationshipXml = C23_Filled(RelationshipTemplate, C23_RelationshipValues)

\* What the generators do: the fields are as stated when no value holds a
\* placeholder's text or a $
C23_PlainValuesAreCarried ==
    /\ (frg_pc \in {"element", "done"}
         /\ C23_Plain(frg_element.id) /\ C23_Plain(frg_element.name)) =>
           frg_elementXml = C23_Filled(ElementTemplate, C23_ElementValues)
    /\ (frg_pc = "done" /\ C23_Plain(frg_relationship.id)
         /\ C23_Plain(frg_relationship.source) /\ C23_Plain(frg_relationship.target)) =>
           frg_relationshipXml = C23_Filled(RelationshipTemplate, C23_RelationshipValues)

\* The relationship whose id ends in $ and a grave accent: the template text
\* before the id's placeholder stands in the place of the pattern
C23_TextBeforeInsideId ==
    /\ frg_pc = "done"
    /\ frg_relationship.id = <<"r", "$", GraveAccent>>
    /\ frg_relationship.source = <<"a">> /\ frg_relationship.target = <<"b">>
    /\ ~frg_includeNames
    /\ frg_relationshipXml =
           <<"<relationship identifier=\"", "r", "<relationship identifier=\"",
             "\" source=\"", "a", "\" target=\"", "b", "\" xsi:type=\"", "Triggering",
             "\"><name>", "</name></relationship>">>

\* The relationship whose id holds the text of the target placeholder: the
\* target was put into the id and the target's own placeholder was left
C23_TargetInsideId ==
    /\ frg_pc = "done"
    /\ frg_relationship.id = <<"r", "{{TARGET_ID}}">>
    /\ frg_relationship.source = <<"a">> /\ frg_relationship.target = <<"b">>
    /\ ~frg_includeNames
    /\ frg_relationshipXml =
           <<"<relationship identifier=\"", "r", "b", "\" source=\"", "a",
             "\" target=\"", "{{TARGET_ID}}", "\" xsi:type=\"", "Triggering",
             "\"><name>", "</name></relationship>">>

-----------------------------------------------------------------------------
(* C24 *)

\* The place of the element's layer in the configured layer order, 0 when
\* the layer is not in it (the element is then not placed)
C24_LayerIndex(i) ==
    IF \E n \in DOMAIN lay_config.layerOrder :
          lay_config.layerOrder[n] = lay_elements[i].layer
    THEN CHOOSE n \in DOMAIN lay_config.layerOrder :
             lay_config.layerOrder[n] = lay_elements[i].layer
    ELSE 0

\* Element j stands left of element i in their common row: its type tag is
\* the lexically smaller one, or the tags are equal and j is the earlier one
\* of the list
C24_LeftOf(j, i) ==
    /\ lay_elements[j].layer = lay_elements[i].layer
    /\ \/ TypeRank(lay_elements[j].type) < TypeRank(lay_elements[i].type)
       \/ /\ lay_elements[j].type = lay_elements[i].type
          /\ j < i

\* Element j is placed after element i
C24_PlacedAfter(j, i) ==
    /\ C24_LayerIndex(j) # 0
    /\ \/ C24_LayerIndex(j) > C24_LayerIndex(i)
       \/ C24_LeftOf(i, j)

\* The positions map keeps the placement of element i: no element with the
\* same id is placed after it
C24_Kept(i) ==
    /\ C24_LayerIndex(i) # 0
    /\ \A j \in DOMAIN lay_elements :
          (j # i /\ lay_elements[j].id = lay_elements[i].id) => ~C24_PlacedAfter(j, i)

RECURSIVE C24_WidthsAndSpacing(_)
C24_WidthsAndSpacing(S) ==
    IF S = {} THEN 0
    ELSE LET j == CHOOSE j \in S : TRUE
         IN getElementDimensions(lay_config, lay_elements[j]).width
            + lay_config.elementSpacing + C24_WidthsAndSpacing(S \ {j})

C24_ExpectedX(i) ==
    lay_config.viewportPadding
    + C24_WidthsAndSpacing({j \in DOMAIN lay_elements : C24_LeftOf(j, i)})

\* The row offset of the layer: the padding and the rows of the layers
\* before it
C24_RowOffset(i) ==
    lay_config.viewportPadding
    + C21_AccumulatedRows(SubSeq(lay_config.layerOrder, 1, C24_LayerIndex(i) - 1))

\* C24: within a layer the elements are placed in ascending lexical order of
\* their type tag at the layer's row offset, the first at x = padding, each
\* following one at the previous x plus the previous width plus the
\* spacing.
C24_RowsRunLeftToRight ==
    lay_pc = "done" =>
        \A i \in DOMAIN lay_elements :
            C24_Kept(i) =>
                Val(lay_result).elementPositions[lay_elements[i].id]
                    = [x |-> C24_ExpectedX(i), y |-> C24_RowOffset(i)]

\* A row of two elements of different types, given in descending order of
\* their tags, and a third element in another row
C24_Witness ==
    /\ lay_pc = "done"
    /\ Len(lay_elements) = 3
    /\ C24_Kept(1) /\ C24_Kept(2)
    /\ C24_LeftOf(2, 1)
    /\ lay_elements[1].type # lay_elements[2].type
    /\ Val(lay_result).elementPositions[lay_elements[1].id].x
          > Val(lay_result).elementPositions[lay_elements[2].id].x
    /\ lay_elements[3].layer # lay_elements[1].layer

-----------------------------------------------------------------------------
(* C25 *)

\* The minimum-size table of the claim
C25_Minimum ==
    [BusinessActor |-> <<140, 60>>, BusinessProcess |-> <<160, 60>>,
     ApplicationComponent |-> <<150, 70>>, ApplicationService |-> <<140, 60>>,
     DataObject |-> <<100, 50>>, Node |-> <<130, 65>>, Device |-> <<120, 55>>]

\* The size the claim gives an element of the type with a name of n
\* characters, from a default size of w by h
C25_Size(type, n, w, h) ==
    LET widened == IF n > 15 /\ 8 * n > w THEN 8 * n ELSE w
    IN IF type \in DOMAIN C25_Minimum
       THEN [width |-> IF C25_Minimum[type][1] > widened
                       THEN C25_Minimum[type][1] ELSE widened,
             height |-> IF C25_Minimum[type][2] > h THEN C25_Minimum[type][2] ELSE h]
       ELSE [width |-> widened, height |-> h]

\* C25: an element's size is the default 120 x 55, the width raised to 8
\* times the name length when the name is longer than 15 characters, then
\* each dimension raised to the minimum of the element's type if the table
\* lists it; it depends on the name length and the type only.  The default
\* is the engine's defaultElementSize, 120 x 55 unless the engine was made
\* with another.
C25_SizeFromNameLengthAndType ==
    dim_pc = "done" =>
        /\ Val(dim_result) =
               C25_Size(dim_element.type, Len(dim_element.name),
                        dim_config.defaultElementSize.width,
                        dim_config.defaultElementSize.height)
        /\ dim_config.defaultElementSize = [width |-> 120, height |-> 55] =>
               Val(dim_result) = C25_Size(dim_element.type, Len(dim_element.name), 120, 55)

\* A name of exactly 15 characters on an element whose type is not in the
\* table: the default size
C25_Witness ==
    /\ dim_pc = "done"
    /\ dim_config = DefaultLayoutConfiguration
    /\ Len(dim_element.name) = 15
    /\ dim_element.type = "Goal"
    /\ Val(dim_result) = [width |-> 120, height |-> 55]

\* A name of 18 characters on a data object: 144 wide, 55 high
C25_WitnessWidened ==
    /\ dim_pc = "done"
    /\ dim_config = DefaultLayoutConfiguration
    /\ Len(dim_element.name) = 18
    /\ dim_element.type = "DataObject"
    /\ Val(dim_result) = [width |-> 144, height |-> 55]

-----------------------------------------------------------------------------
(* C26 *)

C26_Generic == <<doc_element.type, " element: ">> \o doc_element.name

C26_Canned ==
    <<doc_element.type, " ", "'">> \o doc_element.name
    \o <<"'", " ", layerDescriptions[doc_element.layer], " in the ",
         doc_element.layer, " layer">>

\* The template with its type, name and layer tokens replaced
RECURSIVE C26_Substituted(_)
C26_Substituted(template) ==
    IF template = <<>> THEN <<>>
    ELSE (CASE Head(template) = "{{ELEMENT_TYPE}}" -> <<doc_element.type>>
            [] Head(template) = "{{ELEMENT_NAME}}" -> doc_element.name
            [] Head(template) = "{{ELEMENT_LAYER}}" -> <<doc_element.layer>>
            [] OTHER -> <<Head(template)>>)
         \o C26_Substituted(Tail(template))

\* C26 as stated: the documentation is the template with its tokens
\* replaced when a template is supplied; otherwise the canned sentence of
\* the element's layer when documentation is requested; otherwise the
\* generic '{type} element: {name}'.
C26_Original ==
    doc_pc = "done" =>
        Val(doc_result) =
            IF IsSome(doc_options.documentationTemplate)
            THEN C26_Substituted(Val(doc_options.documentationTemplate))
            ELSE IF doc_options.includeDocumentation THEN C26_Canned
                 ELSE C26_Generic

\* No token is in the template twice
C26_EachTokenOnce(template) ==
    \A i, j \in DOMAIN template :
        (i # j /\ template[i] = template[j]) =>
            template[i] \notin {"{{ELEMENT_TYPE}}", "{{ELEMENT_NAME}}", "{{ELEMENT_LAYER}}"}

\* What the generator does: the template counts only when documentation is
\* requested and the template is not empty, of a token that is in the
\* template twice only the first is replaced, and a $ pattern in the name is
\* expanded
C26_TemplateOnlyWhenRequested ==
    doc_pc = "done" =>
        /\ ~doc_options.includeDocumentation => Val(doc_result) = C26_Generic
        /\ (doc_options.includeDocumentation
            /\ doc_options.documentationTemplate \in {None, Some(<<>>)}) =>
               Val(doc_result) = C26_Canned
        /\ (doc_options.includeDocumentation
            /\ doc_options.documentationTemplate \notin {None, Some(<<>>)}
            /\ C26_EachTokenOnce(Val(doc_options.documentationTemplate))
            /\ \A i \in DOMAIN doc_element.name : doc_element.name[i] # "$") =>
               Val(doc_result) = C26_Substituted(Val(doc_options.documentationTemplate))

\* A template was supplied without includeDocumentation and the generic
\* text was returned
C26_TemplateIgnored ==
    /\ doc_pc = "done"
    /\ ~doc_options.includeDocumentation
    /\ doc_options.documentationTemplate = Some(<<"See the model">>)
    /\ Val(doc_result) = C26_Generic

\* The name b$' was put into a requested template: the text after the name
\* token stands in the place of the $ pattern
C26_PatternExpanded ==
    /\ doc_pc = "done"
    /\ doc_options.includeDocumentation
    /\ doc_element.name = <<"b", "$", "'">>
    /\ doc_element.type = "Goal"
    /\ doc_options.documentationTemplate
          = Some(<<"{{ELEMENT_TYPE}}", " ", "{{ELEMENT_NAME}}", " (", "{{ELEMENT_LAYER}}", ")">>)
    /\ Val(doc_result)
          = <<"Goal", " ", "b", " (", "Motivation", ")", " (", "{{ELEMENT_LAYER}}", ")">>

\* The second name token of a requested template was left in the text
C26_SecondTokenLeft ==
    /\ doc_pc = "done"
    /\ doc_options.includeDocumentation
    /\ doc_options.documentationTemplate
          = Some(<<"{{ELEMENT_NAME}}", ": about ", "{{ELEMENT_NAME}}">>)
    /\ Val(doc_result) = doc_element.name \o <<": about ", "{{ELEMENT_NAME}}">>

-----------------------------------------------------------------------------
(* C27 *)

\* The positions of the line feeds of a text
C27_LineEnds(text) == {i \in DOMAIN text : text[i] = "\n"}

\* The first position of the line that ends at line feed e
C27_LineStart(text, e) ==
    IF \E b \in C27_LineEnds(text) : b < e
    THEN 1 + CHOOSE b \in C27_LineEnds(text) :
                 b < e /\ \A c \in C27_LineEnds(text) : c < e => c <= b
    ELSE 1

\* The line feeds that end a fragment: a line that is neither empty nor a
\* comment
C27_FragmentEnds(text) ==
    {e \in C27_LineEnds(text) :
        /\ C27_LineStart(text, e) < e
        /\ text[C27_LineStart(text, e)] \notin {"  <!-- ELEMENTS -->", "  <!-- "}}

\* The fragments of a text, in the order of the text
C27_Fragments(text) ==
    [n \in 1..Cardinality(C27_FragmentEnds(text)) |->
        LET e == CHOOSE f \in C27_FragmentEnds(text) :
                     Cardinality({g \in C27_FragmentEnds(text) : g <= f}) = n
        IN SubSeq(text, C27_LineStart(text, e), e - 1)]

C27_LayerIndex(layer) ==
    CHOOSE i \in 1..7 :
        <<"Motivation", "Strategy", "Business", "Application", "Technology",
          "Physical", "Implementation">>[i] = layer

\* Element a does not come after element b: its layer is earlier, or the
\* layers are equal and its type tag is not the greater
C27_NotAfter(a, b) ==
    \/ C27_LayerIndex(a.layer) < C27_LayerIndex(b.layer)
    \/ /\ a.layer = b.layer
       /\ TypeRank(a.type) <= TypeRank(b.type)

C27_Ungrouped == [els_options EXCEPT !.groupByLayer = FALSE]

C27_Permutations ==
    {p \in [DOMAIN els_elements -> DOMAIN els_elements] :
        \A i, j \in DOMAIN els_elements : p[i] = p[j] => i = j}

\* C27: with groupByLayer the fragments generateElements emits are the
\* fragments it emits without it, one per element, rearranged: in canonical
\* layer order and, within a layer, in the lexical order of the type tag.
C27_GroupingOnlyReorders ==
    (els_pc = "done" /\ els_options.groupByLayer) =>
        \E ungrouped \in {C27_Fragments(generateElements(els_elements, C27_Ungrouped))},
           grouped \in {C27_Fragments(Val(els_result))} :
            /\ Len(ungrouped) = Len(els_elements)
            /\ \A i \in DOMAIN els_elements :
                  ungrouped[i] = generateElement(els_elements[i], els_options)
            /\ Len(grouped) = Len(els_elements)
            /\ \E p \in C27_Permutations :
                  /\ \A i \in DOMAIN grouped : grouped[i] = ungrouped[p[i]]
                  /\ \A i, j \in DOMAIN grouped :
                        i < j => C27_NotAfter(els_elements[p[i]], els_elements[p[j]])

\* Three elements of two layers were given in an order that grouping changes
C27_Witness ==
    /\ els_pc = "done"
    /\ els_options.groupByLayer
    /\ Len(els_elements) = 3
    /\ els_elements[1].type = "BusinessRole"
    /\ els_elements[2].type = "BusinessActor"
    /\ els_elements[3].type = "Goal"
    /\ C27_Fragments(Val(els_result))
         = <<generateElement(els_elements[3], els_options),
             generateElement(els_elements[2], els_options),
             generateElement(els_elements[1], els_options)>>

-----------------------------------------------------------------------------
(* C29 *)

C29_Ids == DOMAIN Val(lay_result).elementPositions

C29_Left(id) == Val(lay_result).elementPositions[id].x

C29_Top(id) == Val(lay_result).elementPositions[id].y

C29_Right(id) == C29_Left(id) + Val(lay_result).elementDimensions[id].width

C29_Bottom(id) == C29_Top(id) + Val(lay_result).elementDimensions[id].height

\* C29: in every layout generated under the default configuration each
\* element's box lies inside the viewport with a margin of at least the
\* viewport padding on all four sides, and the boxes of two elements with
\* different ids do not overlap.
C29_BoxesInsideAndApart ==
    (lay_pc = "done" /\ lay_config = DefaultLayoutConfiguration) =>
        /\ C29_Ids = DOMAIN Val(lay_result).elementDimensions
        /\ \A id \in C29_Ids :
              /\ C29_Left(id) >= lay_config.viewportPadding
              /\ C29_Top(id) >= lay_config.viewportPadding
              /\ C29_Right(id) + lay_config.viewportPadding
                    <= Val(lay_result).viewportSize.width
              /\ C29_Bottom(id) + lay_config.viewportPadding
                    <= Val(lay_result).viewportSize.height
        /\ \A a, b \in C29_Ids :
              a # b =>
                 \/ C29_Right(a) <= C29_Left(b)
                 \/ C29_Right(b) <= C29_Left(a)
                 \/ C29_Bottom(a) <= C29_Top(b)
                 \/ C29_Bottom(b) <= C29_Top(a)

\* Two elements with different ids were laid out in one row under the
\* default configuration, the box of the second reaching the right margin
C29_Witness ==
    /\ lay_pc = "done"
    /\ lay_config = DefaultLayoutConfiguration
    /\ Len(lay_elements) = 2
    /\ lay_elements[1].layer = lay_elements[2].layer
    /\ C29_Ids = {<<"a">>, <<"b">>}
    /\ C29_Top(<<"a">>) = C29_Top(<<"b">>)
    /\ C29_Right(<<"a">>) < C29_Left(<<"b">>)
    /\ C29_Right(<<"b">>) + lay_config.viewportPadding
          = Val(lay_result).viewportSize.width

\* An id was given twice, in two layers, beside another id: the boxes kept
\* for the two ids are in different rows
C29_WitnessRepeatedId ==
    /\ lay_pc = "done"
    /\ lay_config = DefaultLayoutConfiguration
    /\ Len(lay_elements) = 3
    /\ lay_elements[1].id = lay_elements[3].id
    /\ lay_elements[1].layer # lay_elements[3].layer
    /\ C29_Ids = {<<"a">>, <<"b">>}
    /\ C29_Bottom(<<"a">>) <= C29_Top(<<"b">>)

-----------------------------------------------------------------------------
(* C30 *)

\* The view generator of an exporter holds the exporter's theme, the same
\* object with the same mappings, and its layout engine
C30_Agree ==
    HasExporter =>
        /\ exp_this.viewGenerator.colorTheme = exp_this.colorTheme
        /\ exp_this.viewGenerator.layoutEngine = exp_this.layoutEngine

\* The step is a setColorTheme call that threw
C30_Rejected ==
    /\ thm_entry' = "setColorTheme"
    /\ ~Val(thm_outcome').ok

\* C30: after any sequence of constructions, setColorTheme,
\* setLayoutConfiguration and exportModel calls, returned or thrown, the
\* view generator's color theme and layout engine are the exporter's
\* colorTheme and layoutEngine; a setColorTheme that rejects its name
\* changes neither.
C30_ViewGeneratorFollowsExporter ==
    /\ []C30_Agree
    /\ [][C30_Rejected => UNCHANGED exp_this]_vars

\* An exportModel call with the monochrome theme and the compact layout in
\* its options returned, both taken over by the exporter and its view
\* generator
C30_Witness ==
    /\ exp_pc = "returned"
    /\ IsSome(__dirname)
    /\ exp_options.colorTheme = Some(ThemeName("monochrome"))
    /\ exp_options.layoutConfiguration = Some(CompactPartial)
    /\ exp_atCall.colorTheme = createArchiMateTheme
    /\ exp_atCall.layoutEngine = DefaultLayoutConfiguration
    /\ exp_this.colorTheme = createMonochromeTheme
    /\ exp_this.layoutEngine = LayoutEngine(CompactPartial)
    /\ C30_Agree

\* A setColorTheme call rejected its name on an exporter that had the
\* high-contrast theme and the compact layout
C30_WitnessRejected ==
    /\ thm_entry = "setColorTheme"
    /\ thm_name = "neon"
    /\ ~Val(thm_outcome).ok
    /\ exp_this.colorTheme = createHighContrastTheme
    /\ exp_this.layoutEngine = LayoutEngine(CompactPartial)
    /\ C30_Agree

\* The caller changed the colours of a type in the theme object it had
\* constructed the exporter with: the exporter and its view generator hold
\* the changed object
C30_WitnessChangedTheme ==
    /\ HasExporter
    /\ thm_entry = "setElementColors"
    /\ exp_this.colorTheme.ref = 1
    /\ exp_this.colorTheme.preset = "high-contrast"
    /\ getColorsForElement(exp_this.viewGenerator.colorTheme, "BusinessActor")
          = ColorMapping("#123456", "#654321", "#111111")
    /\ C30_Agree

\* No exporter could be constructed: the constructor threw on __dirname
C30_WitnessNoExporter ==
    /\ exp_pc = "unconstructed"
    /\ ~IsSome(__dirname)
    /\ exp_received = Some(Thrown(<<"__dirname is not defined">>))

\* An exportModel call threw on the theme name of its options, the layout
\* configuration of the same options not being applied
C30_WitnessFailedExport ==
    /\ exp_pc = "thrown"
    /\ exp_options.colorTheme = Some(ThemeName("neon"))
    /\ exp_options.layoutConfiguration = Some(CompactPartial)
    /\ exp_this = exp_atCall
    /\ exp_this.layoutEngine = DefaultLayoutConfiguration
    /\ C30_Agree

-----------------------------------------------------------------------------
(* C28 *)

C28_Findings == exp_result.warnings \o exp_result.errors

\* The pre-export validation reported a duplicate id or an orphaned
\* relationship
C28_Reported ==
    \E i \in DOMAIN C28_Findings :
        \/ C28_Findings[i][1] \in {"Duplicate element IDs found: ",
                                   "Duplicate relationship IDs found: "}
        \/ /\ Len(C28_Findings[i]) >= 3
           /\ C28_Findings[i][3] = " orphaned relationships: "

C28_Exported == exp_pc = "returned" /\ IsSome(Val(exp_result.xml).view)

C28_View == Val(Val(exp_result.xml).view)

\* The identifiers of the exported document, in document order
C28_Identifiers ==
    [i \in DOMAIN exp_elements |-> exp_elements[i].id]
    \o [i \in DOMAIN exp_relationships |-> exp_relationships[i].id]
    \o [i \in DOMAIN C28_View.visualElements |-> C28_View.visualElements[i].id]
    \o [i \in DOMAIN C28_View.visualConnections |-> C28_View.visualConnections[i].id]

\* The parsed tree of the exported document: the model node, the element
\* and relationship nodes, the view node with its visual nodes
C28_Document ==
    <<XmlNode("model", [identifier |-> Val(exp_result.xml).modelId])>>
    \o [i \in DOMAIN exp_elements |->
           XmlNode("element", [identifier |-> exp_elements[i].id])]
    \o [i \in DOMAIN exp_relationships |->
           XmlNode("relationship", [identifier |-> exp_relationships[i].id])]
    \o <<XmlNode("view", [identifier |-> C28_View.viewId])>>
    \o [i \in DOMAIN C28_View.visualElements |->
           XmlNode("node", [identifier |-> C28_View.visualElements[i].id])]
    \o [i \in DOMAIN C28_View.visualConnections |->
           XmlNode("connection", [identifier |-> C28_View.visualConnections[i].id])]

\* C28 as stated: when the pre-export validation of exportModel reports no
\* duplicate id and no orphaned relationship, the identifiers of the
\* exported document (element ids, relationship ids, visual element ids,
\* visual connection ids) are pairwise distinct and the standalone validator
\* reports no uniqueness error on the document.
C28_Original ==
    (C28_Exported /\ ~C28_Reported) =>
        /\ \A i, j \in DOMAIN C28_Identifiers :
              i # j => C28_Identifiers[i] # C28_Identifiers[j]
        /\ validateElementUniqueness(C28_Document).errors = <<>>

\* The ids of the elements and the relationships are different from each
\* other and none is spelled 'visual-...' or 'connection-...'
C28_PlainIds ==
    /\ \A i \in DOMAIN exp_elements, j \in DOMAIN exp_relationships :
          exp_elements[i].id # exp_relationships[j].id
    /\ \A i \in DOMAIN exp_elements :
          exp_elements[i].id[1] \notin {"visual-", "connection-"}
    /\ \A j \in DOMAIN exp_relationships :
          exp_relationships[j].id[1] \notin {"visual-", "connection-"}

\* What holds: for plain ids the identifiers are pairwise distinct and the
\* validator reports no uniqueness error
C28_DistinctForPlainIds ==
    (C28_Exported /\ ~C28_Reported /\ C28_PlainIds) =>
        /\ \A i, j \in DOMAIN C28_Identifiers :
              i # j => C28_Identifiers[i] # C28_Identifiers[j]
        /\ validateElementUniqueness(C28_Document).errors = <<>>

\* A relationship with the id of an element was exported without a finding
C28_SharedId ==
    /\ C28_Exported
    /\ exp_result.warnings = <<>>
    /\ exp_result.errors = <<>>
    /\ exp_elements = <<BusinessActor(<<"a">>, NameCustomer),
                        BusinessProcess(<<"b">>, NameOrderProcessing)>>
    /\ exp_relationships = <<Relationship(<<"a">>, <<"a">>, <<"b">>, "Triggering")>>
    /\ validateElementUniqueness(C28_Document).errors
          = <<XmlError("uniqueness", <<"Duplicate element identifier: ", "a">>, None)>>

\* An element with the id of another element's visual element was exported
\* without a finding
C28_DerivedId ==
    /\ C28_Exported
    /\ exp_result.warnings = <<>>
    /\ exp_result.errors = <<>>
    /\ exp_elements = <<BusinessActor(<<"a">>, NameCustomer),
                        BusinessProcess(<<"visual-", "a">>, NameOrderProcessing)>>
    /\ validateElementUniqueness(C28_Document).errors # <<>>

=============================================================================
